---- MODULE Spec2Model ----
(***************************************************************************)
(* Model of the embedding backlog processor, src/embed/backlog.ts.         *)
(*                                                                         *)
(* embedBacklog is an async function: it suspends at every await of a port *)
(* call.  Each action below is one such await together with the            *)
(* synchronous code that runs on its result up to the next await (or the   *)
(* return).  The ports (statsPort, embedPort, vectorIndex) are the         *)
(* environment: each call returns one of the results its interface allows. *)
(***************************************************************************)
EXTENDS Integers, Sequences, FiniteSets, TLC

\* ---------------------------------------------------------------- bounds
MaxChunks == 3        \* chunks in the store
MaxBatchSize == 2     \* deps.batchSize is drawn from 1..MaxBatchSize, or omitted
MaxRuns == 2          \* successive embedBacklog runs against the same store
MaxGetCalls == 3      \* getBacklog calls answered by a stats port of kind "any"

\* -------------------------------------------------------- program constants
DefaultBatchSize == 32

\* undefined, for the optional string fields (syncError, the error code)
None == "undefined"

\* Other optional values (the cursor, deps.batchSize): << >> is undefined,
\* << v >> is the value v.
Undefined == << >>
Some(k) == << k >>

\* ------------------------------------------------------------ chunk keys
\* Chunks are keyed by (mirrorHash, seq); chunk i of the store gets the i-th
\* key in (mirrorHash, seq) order, two chunks per mirror.
ChunkKey(i) == [mirrorHash |-> (i + 1) \div 2, seq |-> (i + 1) % 2]

Chunks == {ChunkKey(i) : i \in 1..MaxChunks}

\* (mirror_hash, seq) > (?, ?): the seek-pagination order of the cursor.
KeyLess(a, b) ==
    \/ a.mirrorHash < b.mirrorHash
    \/ a.mirrorHash = b.mirrorHash /\ a.seq < b.seq

Min2(a, b) == IF a <= b THEN a ELSE b

\* The least key of a non-empty set of keys.
LeastKey(S) == CHOOSE k \in S : \A o \in S : o = k \/ KeyLess(k, o)

\* The first n keys of S in (mirrorHash, seq) order (ORDER BY ... LIMIT n).
RECURSIVE FirstKeys(_, _)
FirstKeys(S, n) ==
    IF S = {} \/ n <= 0 THEN << >>
    ELSE << LeastKey(S) >> \o FirstKeys(S \ {LeastKey(S)}, n - 1)

KeySet(b) == {b[i] : i \in 1..Len(b)}

VARIABLES
    \* ---- the store and the ports handed to embedBacklog (deps)
    vectors,        \* content_vectors: the keys that have a vector for modelUri
    vecDirty,       \* vectorIndex.vecDirty
    statsKind,      \* the stats port: "store" (the backlog query) or "any"
    embedScript,    \* the embed port: "free", or "failFirst" (scenario S4)
    embedPortCalled,\* the embed port has been called before (its own memory)
    batchSizeOpt,   \* deps.batchSize, optional
    \* ---- the locals of the running embedBacklog
    pc,             \* the await the run is suspended at
    cursor,         \* let cursor
    embedded,       \* let embedded
    errors,         \* let errors
    batch,          \* const batch
    result,         \* the value the run returned
    \* ---- the environment of the run
    cancelRequested,\* the caller asked for this run to be cancelled
    \* ---- history of the run, read by the properties only
    runNo,          \* runs started so far
    getCalls,       \* getBacklog calls of this run
    afterArg,       \* the `after` of the latest getBacklog call
    prevLast,       \* the last item of the batch returned by the call before it
    lastOutcome,    \* how the latest non-empty batch ended
    embedCalls,     \* embedBatch calls made for the current batch
    upsertCalls,    \* upsertVectors calls made for the current batch
    submitted,      \* keys passed to embedBatch in this run
    syncCalls,      \* syncVecIndex calls of this run
    emptySeen,      \* getBacklog has returned an empty batch in this run
    backlog0,       \* size of the backlog when the run started
    syncResult,     \* what syncVecIndex answered in this run
    prevRun,        \* the run before this one: its result, the vectors after it
    failed,         \* batches that were submitted and not stored
    consistent,     \* no batch has ended differently from an earlier run
    statsFailed,    \* a getBacklog call has failed (error result or rejection)
    fetched         \* items returned by the getBacklog calls of this run

deps == << vectors, vecDirty, statsKind, embedScript, embedPortCalled,
           batchSizeOpt >>
locals == << pc, cursor, embedded, errors, batch, result >>
history == << runNo, getCalls, afterArg, prevLast, lastOutcome, embedCalls,
              upsertCalls, submitted, syncCalls, syncResult, emptySeen,
              backlog0, prevRun, failed, consistent, statsFailed, fetched >>
backlogVars == << deps, locals, cancelRequested, history >>

VARIABLES
    \* ---- one convert call on a converter of the default registry
    cvId,           \* the converter convert is called on, optional
    cvInput,        \* the ConvertInput, optional
    cvPc,           \* "idle", "await" (the call is suspended) or "done"
    cvClock,        \* milliseconds since the call started
    cvTimer,        \* the setTimeout timer: "none", "armed", "fired", "cleared"
    cvLibrary,      \* the promise of the underlying library
    cvResult        \* the ConvertResult the call resolved with, optional

convertVars == << cvId, cvInput, cvPc, cvClock, cvTimer, cvLibrary, cvResult >>

VARIABLES
    \* ---- one call of a function of converters/errors
    erCall,         \* the function called and its arguments, optional
    erOut           \* what it returned, optional

errorVars == << erCall, erOut >>

VARIABLES
    \* ---- markdownConverter.convert on a file
    mdIn,           \* the ConvertInput: its lines, BOM and path, optional
    mdOut           \* the title of the value it resolved with, optional

titleVars == << mdIn, mdOut >>

VARIABLES
    \* ---- the lookup returned by createChunkLookup(chunksMap)
    chunksMap,      \* the Map given to createChunkLookup: hash -> array, optional
    indexCache,     \* the closure's cache: hash -> (seq -> chunk), optional
    lkCall,         \* the (hash, seq) of the latest lookup, optional
    lkOut,          \* the chunk it returned, or undefined
    lkFirst         \* chunksMap.get(hash) ?? [] as each hash's first lookup found it

lookupVars == << chunksMap, indexCache, lkCall, lkOut, lkFirst >>

VARIABLES
    \* ---- handleDocSimilar: the store and vector index it reads, and one request
    smDocs,         \* the documents table: docid -> row
    smIndex,        \* the vectors of the index: mirrorHash, seq, distance to the query
    smCtx,          \* searchAvailable, and the state of the stored embeddings
    smReq,          \* docId and the query parameters of the request, optional
    smPc,           \* the await the handler is suspended at
    smHits,         \* searchResult.value
    smSearches,     \* searchNearest calls made
    smResp          \* the Response, optional

similarVars == << smDocs, smIndex, smCtx, smReq, smPc, smHits, smSearches, smResp >>

VARIABLES
    \* ---- handleDocLinks: the links the store holds for the document, and one request
    lnLinks,        \* the rows getLinksForDoc returns for the document
    lnReq,          \* docId and the type parameter of the request, optional
    lnPc,           \* the await the handler is suspended at
    lnResp          \* the Response, optional

linksVars == << lnLinks, lnReq, lnPc, lnResp >>

VARIABLES
    \* ---- BacklinksPanel: one mounted panel, its fetchBacklinks calls and the module's cache
    panelDocId,     \* the docId prop of the panel
    effectPending,  \* the effect that calls fetchBacklinks has yet to run
    backlinks,      \* useState: the document whose backlinks are held, optional
    totalCount,     \* useState: the document whose count is held, optional
    loading,        \* useState(true)
    error,          \* useState: the error message, or null
    requestIdRef,   \* requestIdRef.current
    cache,          \* the module's Map: cacheKey -> entry, optional
    fetches,        \* the fetchBacklinks calls made: docId, how far each is, how it ended
    actor           \* history: the call that took the latest step (0: none)

panelVars == << panelDocId, effectPending, backlinks, totalCount, loading,
               error,
               requestIdRef, cache, fetches, actor >>

VARIABLES
    \* ---- AddCollectionDialog: one dialog and the POST /api/collections requests it sent
    dlgOpen,        \* the open prop
    dlgPath,        \* useState: path
    dlgState,       \* useState<DialogState>
    dlgError,       \* useState: the error shown, or null
    dlgInFlight,    \* create requests sent and not answered yet
    dlgPosts,       \* history: create requests sent so far
    dlgVia          \* history: what sent the latest request, and in which state

dialogVars == << dlgOpen, dlgPath, dlgState, dlgError, dlgInFlight, dlgPosts, dlgVia >>

VARIABLES
    \* ---- fuzzyScore: one call
    fzText,         \* the text, optional
    fzQuery,        \* the query, optional
    fzScore         \* the number returned, optional

fuzzyVars == << fzText, fzQuery, fzScore >>
moreVars == << convertVars, errorVars, titleVars, lookupVars, similarVars,
              linksVars,
              panelVars,
              dialogVars,
              fuzzyVars >>

VARIABLES
    \* ---- a ConversionPipeline instance and the calls made on it
    registry,       \* this.registry: undefined (null) or the registry object
    initPromise,    \* this.initPromise: "null", "pending", "fulfilled", "rejected"
    created,        \* createDefaultRegistry invocations made for the instance
    calls,          \* the convert and listConverters calls, in starting order
    \* ---- canonicalize applied to a text, and again to its own output
    canonIn,        \* the text given to the first application
    canonOut,       \* the value returned by the latest application
    canonRuns,      \* applications made so far
    \* ---- a ConverterRegistry and the latest select on it
    converters,     \* this.converters
    isDefault,      \* the registry is as createDefaultRegistry returned it
    selIn,          \* the (mime, ext) of the latest select, optional
    selOut,         \* the id of the converter it returned, or undefined
    \* ---- DefaultMimeDetector.detect
    detPath,        \* the path argument
    detBytes,       \* the bytes argument
    detection       \* the MimeDetection returned, optional

pipelineVars == << registry, initPromise, created, calls >>
canonVars == << canonIn, canonOut, canonRuns >>
registryVars == << converters, isDefault, selIn, selOut >>
mimeVars == << detPath, detBytes, detection >>
converterVars == << pipelineVars, canonVars, registryVars, mimeVars, moreVars >>

vars == << backlogVars, converterVars >>

\* A component on which nothing is called.
PipelineIdle ==
    /\ registry = Undefined
    /\ initPromise = "null"
    /\ created = 0
    /\ calls = << >>

CanonIdle ==
    /\ canonIn = << >>
    /\ canonOut = << >>
    /\ canonRuns = 0

RegistryIdle ==
    /\ converters = << >>
    /\ isDefault = FALSE
    /\ selIn = Undefined
    /\ selOut = None

MimeIdle ==
    /\ detPath = Undefined
    /\ detBytes = << >>
    /\ detection = Undefined

ConvertIdle ==
    /\ cvId = Undefined
    /\ cvInput = Undefined
    /\ cvPc = "idle"
    /\ cvClock = 0
    /\ cvTimer = "none"
    /\ cvLibrary = "none"
    /\ cvResult = Undefined

ErrorsIdle ==
    /\ erCall = Undefined
    /\ erOut = Undefined

TitleIdle ==
    /\ mdIn = Undefined
    /\ mdOut = Undefined

\* The hashes lookups are made for; no hash is a key of an empty Map.
LookupHashes == {"hash1", "hash2"}

LookupNoMap == [h \in LookupHashes |-> Undefined]

LookupIdle ==
    /\ chunksMap = LookupNoMap
    /\ indexCache = LookupNoMap
    /\ lkCall = Undefined
    /\ lkOut = Undefined
    /\ lkFirst = LookupNoMap

\* The docids of the documents table; no row has docid "missing".
SimilarDocids == {"q", "a", "b"}

SimilarNoDocs ==
    [d \in SimilarDocids |-> [docid |-> d, collection |-> "c1",
                              mirrorHash |-> Undefined, active |-> FALSE]]

SimilarNoCtx == [searchAvailable |-> FALSE, embeddings |-> "none"]

SimilarIdle ==
    /\ smDocs = SimilarNoDocs
    /\ smIndex = << >>
    /\ smCtx = SimilarNoCtx
    /\ smReq = Undefined
    /\ smPc = "idle"
    /\ smHits = << >>
    /\ smSearches = 0
    /\ smResp = Undefined

LinksIdle ==
    /\ lnLinks = << >>
    /\ lnReq = Undefined
    /\ lnPc = "idle"
    /\ lnResp = Undefined

\* The documents the panel is shown for.
PanelDocs == {"a", "b"}

PanelIdle ==
    /\ panelDocId = "a"
    /\ effectPending = FALSE
    /\ backlinks = Undefined
    /\ totalCount = Undefined
    /\ loading = TRUE
    /\ error = "null"
    /\ requestIdRef = 0
    /\ cache = [d \in PanelDocs |-> Undefined]
    /\ fetches = << >>
    /\ actor = 0

DialogIdle ==
    /\ dlgOpen = FALSE
    /\ dlgPath = << >>
    /\ dlgState = "form"
    /\ dlgError = "null"
    /\ dlgInFlight = 0
    /\ dlgPosts = 0
    /\ dlgVia = << >>

FuzzyIdle ==
    /\ fzText = Undefined
    /\ fzQuery = Undefined
    /\ fzScore = Undefined

MoreIdle ==
    /\ ConvertIdle
    /\ ErrorsIdle
    /\ TitleIdle
    /\ LookupIdle
    /\ SimilarIdle
    /\ LinksIdle
    /\ PanelIdle
    /\ DialogIdle
    /\ FuzzyIdle

\* Every component of moreVars but x is one on which nothing is called.
MoreIdleExcept(x) ==
    /\ (IF x = "convert" THEN TRUE ELSE ConvertIdle)
    /\ (IF x = "errors" THEN TRUE ELSE ErrorsIdle)
    /\ (IF x = "title" THEN TRUE ELSE TitleIdle)
    /\ (IF x = "lookup" THEN TRUE ELSE LookupIdle)
    /\ (IF x = "similar" THEN TRUE ELSE SimilarIdle)
    /\ (IF x = "links" THEN TRUE ELSE LinksIdle)
    /\ (IF x = "backlinks" THEN TRUE ELSE PanelIdle)
    /\ (IF x = "dialog" THEN TRUE ELSE DialogIdle)
    /\ (IF x = "fuzzy" THEN TRUE ELSE FuzzyIdle)

\* A step on component x leaves the other components of moreVars alone.
MoreFrame(x) ==
    /\ (IF x = "convert" THEN TRUE ELSE UNCHANGED convertVars)
    /\ (IF x = "errors" THEN TRUE ELSE UNCHANGED errorVars)
    /\ (IF x = "title" THEN TRUE ELSE UNCHANGED titleVars)
    /\ (IF x = "lookup" THEN TRUE ELSE UNCHANGED lookupVars)
    /\ (IF x = "similar" THEN TRUE ELSE UNCHANGED similarVars)
    /\ (IF x = "links" THEN TRUE ELSE UNCHANGED linksVars)
    /\ (IF x = "backlinks" THEN TRUE ELSE UNCHANGED panelVars)
    /\ (IF x = "dialog" THEN TRUE ELSE UNCHANGED dialogVars)
    /\ (IF x = "fuzzy" THEN TRUE ELSE UNCHANGED fuzzyVars)

\* ----------------------------------------------------------------- results
Running == [kind |-> "none", code |-> None, embedded |-> 0, errors |-> 0,
            syncError |-> None]

\* err(code, message)
Err(c) == [kind |-> "err", code |-> c, embedded |-> 0, errors |-> 0,
           syncError |-> None]

\* ok({ embedded, errors, syncError })
Ok(e, x, s) == [kind |-> "ok", code |-> None, embedded |-> e, errors |-> x,
                syncError |-> s]

\* const batchSize = deps.batchSize ?? 32
batchSize ==
    IF batchSizeOpt = Undefined THEN DefaultBatchSize ELSE batchSizeOpt[1]

\* ------------------------------------------------------------ the ports
\* The backlog of the store: chunks with no vector for the model, strictly
\* after the cursor, in (mirrorHash, seq) order, at most `limit` of them.
Backlog == Chunks \ vectors

AfterCursor(after) ==
    {k \in Backlog : after = Undefined \/ KeyLess(after[1], k)}

StoreBacklog(limit, after) == FirstKeys(AfterCursor(after), limit)

\* A stats port of kind "any" does not look at the cursor: it answers with
\* any batch of one or two of the first two chunks, in any order, repeats
\* allowed, no longer than the limit, or with the empty batch (the test
\* double of test/embed/backlog.test.ts is one such port).
AnyBatches(limit) ==
    UNION {[1..m -> {ChunkKey(1), ChunkKey(2)}] : m \in 0..Min2(limit, 2)}

\* statsPort.getBacklog(modelUri, {limit, after}): the batches it may return.
getBacklog(limit, after) ==
    IF statsKind = "store" THEN {StoreBacklog(limit, after)}
    ELSE AnyBatches(limit)

\* A stats port of kind "any" answers MaxGetCalls calls and serves one run;
\* the store's backlog query answers every call a run over MaxChunks chunks
\* can make before it must have seen an empty batch.
GetCallsAnswered == IF statsKind = "store" THEN MaxChunks + 2 ELSE MaxGetCalls

RunsAllowed == IF statsKind = "store" THEN MaxRuns ELSE 1

\* A port result: ok with a value of n items, an error result, or a
\* rejected promise.
PortOk(n) == [kind |-> "ok", n |-> n]
PortErr == [kind |-> "err", n |-> 0]
PortThrow == [kind |-> "throw", n |-> 0]

\* embedPort.embedBatch(texts), for n texts: the results it may give.  An ok
\* result carries any number of vectors.
embedBatch(n) ==
    IF embedScript = "failFirst"
    THEN (IF embedPortCalled THEN {PortOk(n)} ELSE {PortErr})
    ELSE {PortErr, PortThrow} \cup {PortOk(m) : m \in 0..(n + 1)}

\* ------------------------------------------------------- embedBacklog
\* The run is over with result r.
Return(r) ==
    /\ pc' = "done"
    /\ result' = r

\* Variants of NextCursor: the cursor taken from the first item of the
\* batch, and the cursor left where it was.
NextCursorFirst(cur, b) == Some(b[1])

NextCursorStuck(cur, b) == cur

\* cursor = { mirrorHash: lastItem.mirrorHash, seq: lastItem.seq }
NextCursor(cur, b) == Some(b[Len(b)])

\* Variant of InitialCursor: the cursor of the run before is kept.
InitialCursorKept == cursor

\* let cursor: Cursor | undefined
InitialCursor == Undefined

\* Variant of NeedsSync: the index is synced at the end of every run.
NeedsSyncAlways == TRUE

\* if (vectorIndex.vecDirty)
NeedsSync == vecDirty

\* Variant of CountMismatch: only too few vectors are noticed.
CountMismatchFewer(n, b) == n < Len(b)

\* if (embeddings.length !== batch.length)
CountMismatch(n, b) == n # Len(b)

\* Variants of BatchFailed: the failure ends the run; the batch is tried
\* again.
BatchFailedAbort ==
    /\ errors' = errors + Len(batch)
    /\ embedded' = embedded
    /\ Return(Err("INTERNAL"))

BatchFailedRetry ==
    /\ errors' = errors
    /\ embedded' = embedded
    /\ pc' = "embedBatch"
    /\ UNCHANGED result

\* errors += batch.length; continue
BatchFailed ==
    /\ errors' = errors + Len(batch)
    /\ embedded' = embedded
    /\ pc' = "getBacklog"
    /\ UNCHANGED result

\* Variant of BatchStored: the stored batch is counted as failed as well.
BatchStoredAndFailed ==
    /\ embedded' = embedded + Len(batch)
    /\ errors' = errors + Len(batch)
    /\ pc' = "getBacklog"
    /\ UNCHANGED result

\* embedded += batch.length (and the loop goes round)
BatchStored ==
    /\ embedded' = embedded + Len(batch)
    /\ errors' = errors
    /\ pc' = "getBacklog"
    /\ UNCHANGED result

\* vectorIndex.vecDirty = false; return ok({ embedded, errors, syncError })
SyncOk ==
    /\ vecDirty' = FALSE
    /\ Return(Ok(embedded, errors, None))

\* Variant of SyncFailed: a failed sync fails the run.
SyncFailedAbort(m) ==
    /\ vecDirty' = vecDirty
    /\ Return(Err("INTERNAL"))

\* syncError = syncResult.error.message; return ok({ ..., syncError })
SyncFailed(m) ==
    /\ vecDirty' = vecDirty
    /\ Return(Ok(embedded, errors, m))

\* Variant of Caught: a dirty index is synced before the error is returned.
CaughtThenSync ==
    IF NeedsSync THEN pc' = "syncVecIndex" /\ UNCHANGED result
    ELSE Return(Err("INTERNAL"))

\* catch (e): return err("INTERNAL", ...)
Caught == Return(Err("INTERNAL"))

\* ---- history bookkeeping
\* The batch in hand ended as class c ("err": not stored, the run went on;
\* "throw": not stored, the run ended; "stored").  It is compared with how
\* earlier runs saw it end, and remembered for the runs that may follow;
\* nothing more is remembered once a batch has ended differently or the
\* backlog query has failed.
Agrees(c) == \A f \in failed : f.keys = KeySet(batch) => f.class = c

Remember(c) ==
    IF ~consistent \/ ~Agrees(c) \/ statsFailed THEN {}
    ELSE IF c # "stored" /\ runNo < RunsAllowed
    THEN failed \cup {[keys |-> KeySet(batch), class |-> c]}
    ELSE failed

Settled(c) ==
    /\ failed' = Remember(c)
    /\ consistent' = (consistent /\ Agrees(c))

LastOf(b) == IF Len(b) = 0 THEN Undefined ELSE Some(b[Len(b)])

StartRun ==
    /\ UNCHANGED converterVars
    /\ pc \in {"idle", "done"}
    /\ runNo < RunsAllowed
    /\ runNo' = runNo + 1
    /\ pc' = "getBacklog"
    /\ embedded' = 0
    /\ errors' = 0
    /\ cursor' = InitialCursor
    /\ batch' = << >>
    /\ result' = Running
    /\ cancelRequested' = FALSE
    /\ getCalls' = 0
    /\ afterArg' = Undefined
    /\ prevLast' = Undefined
    /\ lastOutcome' = "none"
    /\ embedCalls' = 0
    /\ upsertCalls' = 0
    /\ submitted' = {}
    /\ syncCalls' = 0
    /\ syncResult' = "none"
    /\ emptySeen' = FALSE
    /\ fetched' = 0
    /\ backlog0' = Cardinality(Backlog)
    /\ prevRun' = [result |-> result, vectors |-> vectors,
                   backlog0 |-> backlog0]
    /\ UNCHANGED << deps, failed, consistent, statsFailed >>

\* await statsPort.getBacklog(...), up to the next await
GetBacklog ==
    /\ UNCHANGED converterVars
    /\ pc = "getBacklog"
    /\ getCalls < GetCallsAnswered
    /\ getCalls' = getCalls + 1
    /\ afterArg' = cursor
    /\ prevLast' = LastOf(batch)
    /\ embedCalls' = 0
    /\ upsertCalls' = 0
    /\ UNCHANGED << deps, embedded, errors, cancelRequested, runNo,
                    lastOutcome, submitted, syncCalls, syncResult, backlog0,
                    prevRun, consistent >>
    /\ \/ \* !batchResult.ok: return err("QUERY_FAILED", ...)
          /\ Return(Err("QUERY_FAILED"))
          /\ statsFailed' = TRUE
          /\ failed' = {}
          /\ UNCHANGED << cursor, batch, emptySeen, fetched >>
       \/ \* the promise rejects
          /\ Caught
          /\ statsFailed' = TRUE
          /\ failed' = {}
          /\ UNCHANGED << cursor, batch, emptySeen, fetched >>
       \/ \E b \in getBacklog(batchSize, cursor) :
            /\ batch' = b
            /\ fetched' = fetched + Len(b)
            /\ UNCHANGED << statsFailed, failed >>
            /\ IF Len(b) = 0
               THEN /\ emptySeen' = TRUE
                    /\ cursor' = cursor
                    /\ IF NeedsSync
                       THEN /\ pc' = "syncVecIndex"
                            /\ UNCHANGED result
                       ELSE Return(Ok(embedded, errors, None))
               ELSE /\ cursor' = NextCursor(cursor, b)
                    /\ pc' = "embedBatch"
                    /\ UNCHANGED << emptySeen, result >>

\* await embedPort.embedBatch(...), the count check
EmbedBatch ==
    /\ UNCHANGED converterVars
    /\ pc = "embedBatch"
    /\ embedCalls' = embedCalls + 1
    /\ submitted' = submitted \cup KeySet(batch)
    /\ embedPortCalled' = TRUE
    /\ UNCHANGED << vectors, vecDirty, statsKind, embedScript, batchSizeOpt,
                    cursor, batch, cancelRequested, runNo, getCalls, afterArg,
                    prevLast, upsertCalls, syncCalls, syncResult, emptySeen,
                    backlog0, prevRun, statsFailed, fetched >>
    /\ \E r \in embedBatch(Len(batch)) :
         \/ /\ r.kind = "throw"
            /\ lastOutcome' = "embedThrow"
            /\ Caught
            /\ Settled("throw")
            /\ UNCHANGED << embedded, errors >>
         \/ /\ r.kind = "err"
            /\ lastOutcome' = "embedErr"
            /\ BatchFailed
            /\ Settled("err")
         \/ /\ r.kind = "ok"
            /\ lastOutcome' = (IF r.n = Len(batch) THEN "embedded"
                               ELSE "miscount")
            /\ IF CountMismatch(r.n, batch)
               THEN /\ BatchFailed
                    /\ Settled("err")
               ELSE /\ pc' = "upsertVectors"
                    /\ UNCHANGED << embedded, errors, result, failed,
                                    consistent >>

\* await vectorIndex.upsertVectors(vectors)
UpsertVectors ==
    /\ UNCHANGED converterVars
    /\ pc = "upsertVectors"
    /\ upsertCalls' = upsertCalls + 1
    /\ UNCHANGED << statsKind, embedScript, embedPortCalled, batchSizeOpt,
                    cursor, batch, cancelRequested, runNo, getCalls, afterArg,
                    prevLast, embedCalls, submitted, syncCalls, syncResult,
                    emptySeen, backlog0, prevRun, statsFailed, fetched >>
    /\ \/ \* ok: the durable write is done; a side-index failure sets vecDirty
          /\ vectors' = vectors \cup KeySet(batch)
          /\ vecDirty' \in {vecDirty, TRUE}
          /\ lastOutcome' = "stored"
          /\ BatchStored
          /\ Settled("stored")
       \/ \* !storeResult.ok: the transaction stored nothing
          /\ UNCHANGED << vectors, vecDirty >>
          /\ lastOutcome' = "storeErr"
          /\ BatchFailed
          /\ Settled("err")
       \/ \* the promise rejects
          /\ UNCHANGED << vectors, vecDirty, embedded, errors >>
          /\ lastOutcome' = "storeThrow"
          /\ Caught
          /\ Settled("throw")

SyncMessages == {"sync failed"}

\* await vectorIndex.syncVecIndex(), the return
SyncVecIndex ==
    /\ UNCHANGED converterVars
    /\ pc = "syncVecIndex"
    /\ syncCalls' = syncCalls + 1
    /\ UNCHANGED << vectors, statsKind, embedScript, embedPortCalled,
                    batchSizeOpt, cursor, embedded, errors, batch,
                    cancelRequested, runNo, getCalls, afterArg, prevLast,
                    lastOutcome, embedCalls, upsertCalls, submitted,
                    emptySeen, backlog0, prevRun, failed, consistent,
                    statsFailed, fetched >>
    /\ \/ \* syncResult.ok
          /\ syncResult' = "ok"
          /\ SyncOk
       \/ \* !syncResult.ok
          \E m \in SyncMessages :
            /\ syncResult' = m
            /\ SyncFailed(m)
       \/ \* the promise rejects
          /\ syncResult' = "throw"
          /\ vecDirty' = vecDirty
          /\ Caught

\* The caller asks for the run to be cancelled.  EmbedBacklogDeps has no
\* field through which the run could learn of it.
RequestCancel ==
    /\ UNCHANGED converterVars
    /\ pc \in {"getBacklog", "embedBatch", "upsertVectors", "syncVecIndex"}
    /\ ~cancelRequested
    /\ cancelRequested' = TRUE
    /\ UNCHANGED << deps, locals, history >>

Init ==
    /\ \/ /\ statsKind = "store"
          /\ vectors \in SUBSET Chunks
          /\ embedScript \in {"free", "failFirst"}
       \/ /\ statsKind = "any"
          /\ vectors = {}
          /\ embedScript = "free"
    /\ vecDirty \in BOOLEAN
    /\ embedPortCalled = FALSE
    /\ batchSizeOpt \in {Undefined} \cup {Some(n) : n \in 1..MaxBatchSize}
    /\ pc = "idle"
    /\ cursor = Undefined
    /\ embedded = 0
    /\ errors = 0
    /\ batch = << >>
    /\ result = Running
    /\ cancelRequested = FALSE
    /\ runNo = 0
    /\ getCalls = 0
    /\ afterArg = Undefined
    /\ prevLast = Undefined
    /\ lastOutcome = "none"
    /\ embedCalls = 0
    /\ upsertCalls = 0
    /\ submitted = {}
    /\ syncCalls = 0
    /\ syncResult = "none"
    /\ emptySeen = FALSE
    /\ backlog0 = 0
    /\ prevRun = [result |-> Running, vectors |-> {}, backlog0 |-> 0]
    /\ failed = {}
    /\ consistent = TRUE
    /\ statsFailed = FALSE
    /\ fetched = 0
    /\ PipelineIdle
    /\ CanonIdle
    /\ RegistryIdle
    /\ MimeIdle
    /\ MoreIdle

Next ==
    \/ StartRun
    \/ GetBacklog
    \/ EmbedBatch
    \/ UpsertVectors
    \/ SyncVecIndex
    \/ RequestCancel

Spec == Init /\ [][Next]_vars

\* The scheduler resumes a suspended run whenever its awaited port call
\* settles; the caller need not start another run nor cancel.
RunStep == GetBacklog \/ EmbedBatch \/ UpsertVectors \/ SyncVecIndex

FairSpec == Spec /\ WF_vars(RunStep)

\* ======================================================================
\* Properties of embedBacklog
\* ======================================================================
FailureOutcomes == {"embedErr", "miscount", "storeErr"}

Suspended == {"getBacklog", "embedBatch", "upsertVectors", "syncVecIndex"}

CeilDiv(a, b) == (a + b - 1) \div b

\* The step is the settling of an embedBatch or upsertVectors call.
BatchStep ==
    /\ pc \in {"embedBatch", "upsertVectors"}
    /\ (embedCalls' # embedCalls \/ upsertCalls' # upsertCalls)

\* C1: the first getBacklog call of a run is made with after = undefined;
\* every later call is made with after = the (mirrorHash, seq) of the last
\* item of the batch the call before it returned, however that batch ended.
C1_CursorFollowsLastItem ==
    /\ getCalls = 1 => afterArg = Undefined
    /\ getCalls >= 2 => (prevLast # Undefined /\ afterArg = prevLast)

\* A second call made after a batch of two that failed in upsertVectors.
C1_Witness ==
    /\ getCalls = 2
    /\ lastOutcome = "storeErr"
    /\ errors = 2
    /\ afterArg = prevLast
    /\ pc = "embedBatch"

\* C2: a batch that fails (embedBatch error result, wrong vector count,
\* upsertVectors error result) adds its length to errors, leaves embedded
\* alone, and the loop goes on to the next getBacklog call without
\* returning; a run that returns ok reports the counts it accumulated.
C2_FailedBatchCounted ==
    /\ [][(BatchStep /\ lastOutcome' \in FailureOutcomes)
          => (/\ errors' = errors + Len(batch)
              /\ embedded' = embedded
              /\ pc' = "getBacklog"
              /\ result' = Running)]_vars
    /\ [](pc = "done" /\ result.kind = "ok"
          => (result.embedded = embedded /\ result.errors = errors))

\* A run that met a failed batch and later returned ok with its errors.
C2_Witness ==
    /\ pc = "done"
    /\ result.kind = "ok"
    /\ result.errors = 2
    /\ result.embedded = 1
    /\ lastOutcome = "miscount"

\* C3: against the store's backlog query a run makes at most
\* ceil(n / batchSize) + 1 getBacklog calls, n the size of the backlog when
\* it started, and it always returns; a run that returns ok has seen an
\* empty batch.
C3_Terminates ==
    /\ [](statsKind = "store"
          => getCalls <= CeilDiv(backlog0, batchSize) + 1)
    /\ [](pc = "done" /\ result.kind = "ok" => emptySeen)
    /\ ((statsKind = "store" /\ pc \in Suspended) ~> (pc = "done"))

\* A run over a full backlog, one chunk a batch, every batch failed.
C3_Witness ==
    /\ statsKind = "store"
    /\ pc = "done"
    /\ backlog0 = MaxChunks
    /\ batchSize = 1
    /\ errors = MaxChunks
    /\ getCalls = MaxChunks + 1
    /\ result.kind = "ok"

\* C4: syncVecIndex is called at most once in a run, never before
\* getBacklog has returned an empty batch, and at that point it is called
\* exactly when vecDirty is true; with vecDirty false the run returns
\* without a sync.
C4_SyncOnceAtEnd ==
    /\ [](syncCalls <= 1)
    /\ []((syncCalls >= 1 \/ pc = "syncVecIndex") => emptySeen)
    /\ [][(emptySeen' /\ ~emptySeen)
          => IF vecDirty
             THEN pc' = "syncVecIndex"
             ELSE pc' = "done" /\ syncCalls' = 0 /\ syncResult' = "none"]_vars
    /\ [](pc = "done" /\ emptySeen /\ syncCalls = 0 /\ result.kind = "ok"
          => ~vecDirty)

\* A run that stored a batch whose side-index write failed, saw the empty
\* batch and synced once.
C4_Witness ==
    /\ pc = "done"
    /\ syncCalls = 1
    /\ embedded >= 1
    /\ getCalls >= 2
    /\ emptySeen

\* C5: when the run reaches the sync (vecDirty true): a successful sync
\* clears vecDirty and the run returns ok with syncError undefined; a
\* failed sync leaves vecDirty true and the run returns ok with syncError
\* the sync's message and the embedded and errors counted before the sync.
C5_SyncOutcome ==
    /\ [](pc = "syncVecIndex" => vecDirty)
    /\ [][(pc = "syncVecIndex" /\ syncCalls' # syncCalls)
          => /\ syncResult' = "ok"
                => (~vecDirty' /\ result' = Ok(embedded, errors, None))
             /\ syncResult' \in SyncMessages
                => (vecDirty' /\ result' = Ok(embedded, errors, syncResult'))
         ]_vars

\* A run that embedded a batch and whose sync then failed.
C5_Witness ==
    /\ pc = "done"
    /\ syncResult \in SyncMessages
    /\ vecDirty
    /\ result.kind = "ok"
    /\ result.syncError \in SyncMessages
    /\ result.embedded >= 1

\* C6: when embedBatch returns a number of vectors other than the number
\* of items of the batch, the whole batch is added to errors, upsertVectors
\* is not called for it and nothing of it is stored.
C6_MiscountSkipsBatch ==
    /\ [][(BatchStep /\ pc = "embedBatch" /\ lastOutcome' = "miscount")
          => (/\ errors' = errors + Len(batch)
              /\ embedded' = embedded
              /\ pc' # "upsertVectors"
              /\ upsertCalls' = 0
              /\ vectors' = vectors)]_vars
    /\ [](pc = "upsertVectors" => lastOutcome = "embedded")

\* A batch of two for which embedBatch returned another number of vectors.
C6_Witness ==
    /\ lastOutcome = "miscount"
    /\ pc = "getBacklog"
    /\ Len(batch) = 2
    /\ errors = 2
    /\ upsertCalls = 0
    /\ KeySet(batch) \cap vectors = {}

\* C7: for each non-empty batch embedBatch is called exactly once and
\* upsertVectors at most once, and against the store's backlog query no
\* item is submitted to embedBatch twice in a run.
C7_NoRetry ==
    /\ [](embedCalls <= 1 /\ upsertCalls <= 1)
    /\ [](pc \in {"getBacklog", "upsertVectors"} /\ Len(batch) > 0
          => embedCalls = 1)
    /\ [][(BatchStep /\ pc = "embedBatch" /\ statsKind = "store")
          => KeySet(batch) \cap submitted = {}]_vars

\* A run over the whole store in which a batch failed and a later one was
\* stored.
C7_Witness ==
    /\ statsKind = "store"
    /\ pc = "done"
    /\ errors >= 1
    /\ embedded >= 1
    /\ submitted = Chunks
    /\ lastOutcome = "stored"

\* Scenario S4: the store's backlog query, three backlog items in one
\* batch, an embed port that fails its first call and succeeds after it.
S4Setup ==
    /\ statsKind = "store"
    /\ embedScript = "failFirst"
    /\ batchSize >= 3

S4FirstRun ==
    /\ S4Setup
    /\ runNo = 1
    /\ pc = "done"
    /\ backlog0 = 3
    /\ result.kind = "ok"
    /\ syncCalls = 0

S4SecondRun ==
    /\ S4Setup
    /\ runNo = 2
    /\ pc = "done"
    /\ prevRun.backlog0 = 3
    /\ prevRun.result = Ok(0, 3, None)
    /\ result.kind = "ok"

S4FirstResult ==
    /\ result = Ok(0, 3, None)
    /\ cursor # Undefined
    /\ AfterCursor(cursor) = {}

\* C8 as stated: the first run returns embedded=0, errors=3, syncError
\* undefined with the cursor past all three items, and a second run returns
\* embedded=0, errors=0.
C8_Original ==
    /\ S4FirstRun => S4FirstResult
    /\ S4SecondRun => (result.embedded = 0 /\ result.errors = 0)

\* C8 amended: the first run returns embedded=0, errors=3, syncError
\* undefined with the cursor past all three items; the cursor is not kept,
\* so a second run fetches the three items again and counts all three:
\* embedded=3, errors=0 when upsertVectors stores them.
C8_SecondRunRefetches ==
    /\ S4FirstRun => S4FirstResult
    /\ S4SecondRun
       => /\ result.embedded + result.errors = 3
          /\ lastOutcome = "stored"
             => (result.embedded = 3 /\ result.errors = 0)

\* The second run of the scenario, returning embedded=3, errors=0.
C8_Witness ==
    /\ S4SecondRun
    /\ result.embedded = 3
    /\ result.errors = 0
    /\ vectors = Chunks

\* C9: against the store's backlog query, when every batch ends in a later
\* run as it ended before (the ports' behaviour has not changed) and the
\* backlog query has answered every call, a run that follows another leaves
\* the same set of stored vectors as the run before it.
C9_Idempotent ==
    (/\ statsKind = "store"
     /\ runNo >= 2
     /\ pc = "done"
     /\ consistent
     /\ ~statsFailed)
    => vectors = prevRun.vectors

\* A second run that met again a batch the first run had failed on, after
\* the first run had stored another batch.
C9_Witness ==
    /\ statsKind = "store"
    /\ runNo = 2
    /\ pc = "done"
    /\ consistent
    /\ ~statsFailed
    /\ errors >= 1
    /\ vectors # {}
    /\ Backlog # {}
    /\ vectors = prevRun.vectors
    /\ prevRun.result.embedded >= 1

\* C10 as stated: once cancellation has been requested while a batch is
\* being embedded or stored, the batch completes and the loop makes no
\* further getBacklog call.
C10_CancelStopsLoop ==
    [][(cancelRequested /\ BatchStep) => pc' # "getBacklog"]_vars

\* The items of the batch in hand that neither counter has taken yet.
Pending == IF pc \in {"embedBatch", "upsertVectors"} THEN Len(batch) ELSE 0

\* The outcomes with which a batch leaves the loop body normally.
BatchEnds == FailureOutcomes \cup {"stored"}

\* C30: whenever embedBacklog returns ok, embedded + errors equals the
\* number of items returned by all getBacklog calls of the run; each batch
\* adds its whole length to exactly one of the two counters, to embedded
\* only when embedBatch succeeded with a matching count and upsertVectors
\* succeeded; no item is counted twice or left uncounted.
C30_EveryItemCountedOnce ==
    /\ [](/\ (pc = "done" /\ result.kind = "ok")
               => result.embedded + result.errors = fetched
          /\ pc \in Suspended => embedded + errors + Pending = fetched)
    /\ [][(BatchStep /\ lastOutcome' \in BatchEnds)
          => (/\ \/ /\ embedded' = embedded + Len(batch)
                    /\ errors' = errors
                 \/ /\ embedded' = embedded
                    /\ errors' = errors + Len(batch)
              /\ embedded' # embedded
                   <=> (/\ pc = "upsertVectors"
                        /\ lastOutcome = "embedded"
                        /\ lastOutcome' = "stored"))]_vars
    /\ [][(embedded' # embedded \/ errors' # errors)
          => (StartRun \/ (BatchStep /\ lastOutcome' \in BatchEnds))]_vars

\* A run that returned ok after two getBacklog calls brought three items:
\* a batch of two that failed and a batch of one that was stored.
C30_Witness ==
    /\ pc = "done"
    /\ result.kind = "ok"
    /\ fetched = 3
    /\ result.embedded = 1
    /\ result.errors = 2
    /\ getCalls >= 3

\* The step leaves the loop of the run without its break: a getBacklog
\* error result, or a port call of the loop whose promise rejects.
EarlyExit ==
    /\ pc \in {"getBacklog", "embedBatch", "upsertVectors"}
    /\ pc' \notin {"getBacklog", "embedBatch", "upsertVectors"}
    /\ ~emptySeen'

\* C31: when embedBacklog exits early (getBacklog returns an error: result
\* QUERY_FAILED; a port throws: result INTERNAL) it makes no syncVecIndex
\* call and leaves vecDirty as it is, even if earlier batches of the run
\* were stored and set vecDirty; the counts accumulated are not returned.
C31_EarlyExitSkipsSync ==
    /\ [][EarlyExit
          => (/\ pc' = "done"
              /\ result' \in {Err("QUERY_FAILED"), Err("INTERNAL")}
              /\ pc # "getBacklog" => result' = Err("INTERNAL")
              /\ result'.embedded = 0
              /\ result'.errors = 0
              /\ vecDirty' = vecDirty
              /\ syncCalls' = 0)]_vars
    /\ []((pc = "done" /\ ~emptySeen)
            => (/\ syncCalls = 0
                /\ result.kind = "err"
                /\ result.code \in {"QUERY_FAILED", "INTERNAL"}))

\* A run that stored a batch, which left the index dirty, and then ended
\* early with the index still dirty and never synced.
C31_Witness ==
    /\ pc = "done"
    /\ ~emptySeen
    /\ result.kind = "err"
    /\ embedded >= 1
    /\ vecDirty
    /\ syncCalls = 0
    /\ result.embedded = 0

\* ======================================================================
\* The converters: src/converters
\* ======================================================================
\* ---------------------------------------------------------------- strings
\* A string whose case matters is kept as its lower-case text together with
\* the positions of its upper-case letters: Cased(".md", {2, 3}) is ".MD".
Str(t) == [text |-> t, upper |-> {}]

Cased(t, ps) == [text |-> t, upper |-> ps]

\* String.prototype.toLowerCase
toLowerCase(s) == [text |-> s.text, upper |-> {}]

MarkdownMime == Str("text/markdown")
PlainMime == Str("text/plain")
PdfMime == Str("application/pdf")
DocxMime ==
    Str("application/vnd.openxmlformats-officedocument.wordprocessingml.document")
PptxMime ==
    Str("application/vnd.openxmlformats-officedocument.presentationml.presentation")
XlsxMime ==
    Str("application/vnd.openxmlformats-officedocument.spreadsheetml.sheet")
ZipMime == Str("application/zip")
OctetStreamMime == Str("application/octet-stream")

\* ------------------------------------------------------------- canHandle
\* native/markdown
markdownCanHandle(mime, ext) == mime = MarkdownMime \/ ext = Str(".md")

\* native/plaintext
plaintextCanHandle(mime, ext) == mime = PlainMime \/ ext = Str(".txt")

\* adapter/markitdown-ts
SUPPORTED_EXTENSIONS == {Str(".pdf"), Str(".docx"), Str(".xlsx")}

SUPPORTED_MIMES == {PdfMime, DocxMime, XlsxMime}

markitdownCanHandle(mime, ext) ==
    ext \in SUPPORTED_EXTENSIONS \/ mime \in SUPPORTED_MIMES

\* adapter/officeparser: the adapter for PPTX
officeparserCanHandle(mime, ext) == ext = Str(".pptx") \/ mime = PptxMime

\* The converters of test/converters/registry.test.ts: test/mock, and two
\* that handle everything.
mockCanHandle(mime, ext) == mime = Str("test/mock") \/ ext = Str(".mock")

\* converter.canHandle(mime, ext), the converter given by its id
canHandle(id, mime, ext) ==
    CASE id = "native/markdown" -> markdownCanHandle(mime, ext)
      [] id = "native/plaintext" -> plaintextCanHandle(mime, ext)
      [] id = "adapter/markitdown-ts" -> markitdownCanHandle(mime, ext)
      [] id = "adapter/officeparser" -> officeparserCanHandle(mime, ext)
      [] id = "test/mock" -> mockCanHandle(mime, ext)
      [] id \in {"first", "second"} -> TRUE
      [] OTHER -> FALSE

\* ------------------------------------------------------ ConverterRegistry
\* Variant of find: the last converter that can handle the input.
RECURSIVE findLast(_, _, _)
findLast(cs, m, e) ==
    IF cs = << >> THEN None
    ELSE IF canHandle(cs[Len(cs)], m, e) THEN cs[Len(cs)]
    ELSE findLast(SubSeq(cs, 1, Len(cs) - 1), m, e)

\* this.converters.find((c) => c.canHandle(m, e))
RECURSIVE find(_, _, _)
find(cs, m, e) ==
    IF cs = << >> THEN None
    ELSE IF canHandle(Head(cs), m, e) THEN Head(cs)
    ELSE find(Tail(cs), m, e)

\* select(mime, ext), on a registry whose converters are cs
select(cs, mime, ext) == find(cs, toLowerCase(mime), toLowerCase(ext))

\* listConverters()
listConverters(cs) == cs

\* Variant of DefaultConverters: the adapters registered before the native
\* converters.
DefaultConvertersAdaptersFirst ==
    << "adapter/markitdown-ts", "adapter/officeparser", "native/markdown",
       "native/plaintext" >>

\* createDefaultRegistry: the converters in the order they are registered
DefaultConverters ==
    << "native/markdown", "native/plaintext", "adapter/markitdown-ts",
       "adapter/officeparser" >>

\* ----------------------------------------------------------- canonicalize
\* A text is a sequence of characters.  The characters that the rules of
\* canonicalize tell apart: a letter, the combining acute accent U+0301, the
\* letter with the accent U+00E9 (their NFC composition), space, tab,
\* newline, carriage return, and the control character U+0001.
LF == "LF"
CR == "CR"
TAB == "TAB"
SP == "SP"
CTL == "CTL"
ACUTE == "ACUTE"
EACUTE == "EACUTE"

\* Variant of CONTROL_CHAR_PATTERN: the pattern matches nothing.
ControlCharPatternNone == {}

\* CONTROL_CHAR_PATTERN: U+0000-U+0008, U+000B-U+000C, U+000E-U+001F, U+007F
CONTROL_CHAR_PATTERN == {CTL}

\* The white space of String.prototype.trimEnd.
WhiteSpace == {SP, TAB, LF, CR}

\* markdown.replace(/\r\n/g, '\n')
RECURSIVE ReplaceCRLF(_)
ReplaceCRLF(s) ==
    IF s = << >> THEN << >>
    ELSE IF Len(s) >= 2 /\ s[1] = CR /\ s[2] = LF
    THEN << LF >> \o ReplaceCRLF(SubSeq(s, 3, Len(s)))
    ELSE << s[1] >> \o ReplaceCRLF(Tail(s))

\* .replace(/\r/g, '\n')
ReplaceCR(s) == [i \in 1..Len(s) |-> IF s[i] = CR THEN LF ELSE s[i]]

\* result.normalize('NFC'): a letter directly followed by the combining
\* accent composes with it; nothing else in these texts changes.
RECURSIVE normalizeNFC(_)
normalizeNFC(s) ==
    IF s = << >> THEN << >>
    ELSE IF Len(s) >= 2 /\ s[1] = "e" /\ s[2] = ACUTE
    THEN << EACUTE >> \o normalizeNFC(SubSeq(s, 3, Len(s)))
    ELSE << s[1] >> \o normalizeNFC(Tail(s))

\* result.replace(CONTROL_CHAR_PATTERN, '')
IsKept(c) == c \notin CONTROL_CHAR_PATTERN

StripControl(s) == SelectSeq(s, IsKept)

\* result.split('\n')
RECURSIVE split(_)
split(s) ==
    IF \A i \in 1..Len(s) : s[i] # LF THEN << s >>
    ELSE LET i == CHOOSE k \in 1..Len(s) :
                      s[k] = LF /\ \A j \in 1..(k - 1) : s[j] # LF
         IN << SubSeq(s, 1, i - 1) >> \o split(SubSeq(s, i + 1, Len(s)))

\* line.trimEnd()
RECURSIVE trimEnd(_)
trimEnd(line) ==
    IF line # << >> /\ line[Len(line)] \in WhiteSpace
    THEN trimEnd(SubSeq(line, 1, Len(line) - 1))
    ELSE line

TrimLines(lines) == [i \in 1..Len(lines) |-> trimEnd(lines[i])]

\* Variant of KeepBlank: two blank lines of a run are kept.
KeepBlankTwo(blankCount) == blankCount <= 2

\* if (blankCount === 1) collapsed.push(line)
KeepBlank(blankCount) == blankCount = 1

\* for (const line of lines) { ... }: the lines pushed to collapsed, the
\* loop entered with the given blankCount
RECURSIVE Collapse(_, _)
Collapse(lines, blankCount) ==
    IF lines = << >> THEN << >>
    ELSE IF Head(lines) = << >>
    THEN (IF KeepBlank(blankCount + 1) THEN << << >> >> ELSE << >>)
         \o Collapse(Tail(lines), blankCount + 1)
    ELSE << Head(lines) >> \o Collapse(Tail(lines), 0)

\* while (collapsed.length > 0 && collapsed.at(-1) === '') collapsed.pop()
RECURSIVE PopBlank(_)
PopBlank(collapsed) ==
    IF collapsed # << >> /\ collapsed[Len(collapsed)] = << >>
    THEN PopBlank(SubSeq(collapsed, 1, Len(collapsed) - 1))
    ELSE collapsed

\* collapsed.join('\n')
RECURSIVE join(_)
join(lines) ==
    IF lines = << >> THEN << >>
    ELSE IF Len(lines) = 1 THEN lines[1]
    ELSE lines[1] \o << LF >> \o join(Tail(lines))

\* canonicalize(markdown)
canonicalize(markdown) ==
    IF markdown = << >> THEN << LF >>
    ELSE LET newlines == ReplaceCR(ReplaceCRLF(markdown))
             stripped == StripControl(normalizeNFC(newlines))
             lines == TrimLines(split(stripped))
             collapsed == PopBlank(Collapse(lines, 0))
         IN  join(collapsed) \o << LF >>

\* The SHA-256 digest of a text in lower-case hex: a value that is
\* determined by the text and differs for different texts.
Sha256Hex(s) == << "sha256", s >>

\* mirrorHash(canonical)
mirrorHash(canonical) == Sha256Hex(canonical)

\* ---------------------------------------------------- ConversionPipeline
\* convert and listConverters are async: a call runs from its start to the
\* await of ensureRegistry, from there to the await of registry.convert,
\* and from there to its return; other calls run in between.
MaxCalls == 2         \* calls made on the pipeline instance

\* ---- errors (errors.ts); message, sourcePath, cause and details left out
NoError == [code |-> None, retryable |-> FALSE, fatal |-> FALSE,
            converterId |-> None, mime |-> Str(""), ext |-> Str("")]

unsupportedError(input) ==
    [code |-> "UNSUPPORTED", retryable |-> FALSE, fatal |-> FALSE,
     converterId |-> "registry", mime |-> input.mime, ext |-> input.ext]

timeoutError(input, converterId) ==
    [code |-> "TIMEOUT", retryable |-> TRUE, fatal |-> FALSE,
     converterId |-> converterId, mime |-> input.mime, ext |-> input.ext]

corruptError(input, converterId) ==
    [code |-> "CORRUPT", retryable |-> FALSE, fatal |-> FALSE,
     converterId |-> converterId, mime |-> input.mime, ext |-> input.ext]

internalError(input, converterId) ==
    [code |-> "INTERNAL", retryable |-> FALSE, fatal |-> TRUE,
     converterId |-> converterId, mime |-> input.mime, ext |-> input.ext]

\* ---- results: ConvertResult, PipelineResult, the ids of listConverters,
\* a rejected promise, and a promise not settled yet
NoHash == << >>

NoValue == [markdown |-> << >>, mirrorHash |-> NoHash, title |-> None,
            languageHint |-> None, meta |-> None]

Unsettled == [kind |-> "unsettled", error |-> NoError, value |-> NoValue,
              ids |-> << >>]

Success(v) == [kind |-> "ok", error |-> NoError, value |-> v, ids |-> << >>]

Failure(e) == [kind |-> "error", error |-> e, value |-> NoValue,
               ids |-> << >>]

Rejected == [kind |-> "rejected", error |-> NoError, value |-> NoValue,
             ids |-> << >>]

Listed(ids) == [kind |-> "ids", error |-> NoError, value |-> NoValue,
                ids |-> ids]

\* ---- inputs
ConvertInputs ==
    {[mime |-> MarkdownMime, ext |-> Str(".md")],
     [mime |-> Str("unknown/type"), ext |-> Str(".unknown")]}

NoInput == [mime |-> Str(""), ext |-> Str("")]

\* The raw markdown a converter may return: empty, canonical, and with a
\* trailing space, a CRLF and a blank line at the end.
RawMarkdowns ==
    {<< >>, << "e", LF >>, << "e", SP, CR, LF, LF >>}

\* The title and languageHint of a converter output.
Hints == {[title |-> None, languageHint |-> None],
          [title |-> "T", languageHint |-> "en"]}

\* ConvertOutput (mirrorHash is the field the pipeline adds)
ConvertOutput(markdown, h, converterId) ==
    [markdown |-> markdown, mirrorHash |-> NoHash, title |-> h.title,
     languageHint |-> h.languageHint, meta |-> converterId]

\* converter.convert(input): a converter resolves with an output or with
\* one of its errors, or its promise rejects.
converterConvert(converterId, input) ==
    {Success(ConvertOutput(m, h, converterId)) : m \in RawMarkdowns,
                                                 h \in Hints}
    \cup {Failure(timeoutError(input, converterId)),
          Failure(corruptError(input, converterId)),
          Rejected}

\* registry.convert(input), on a registry whose converters are cs
registryConvert(cs, input) ==
    LET converter == select(cs, input.mime, input.ext)
    IN  IF converter = None THEN {Failure(unsupportedError(input))}
        ELSE converterConvert(converter, input)

\* ---- the registry objects: object 0 is the one given to the constructor,
\* object n the one returned by the n-th createDefaultRegistry invocation.
GivenRegistry == Some(0)

GivenConverters == << "native/markdown" >>

RegistryConverters(r) ==
    IF r = GivenRegistry THEN GivenConverters ELSE DefaultConverters

\* Variant of NeedsInit: the initialization is started whenever the
\* registry is not set.
NeedsInitAlways == TRUE

\* Variant of NeedsInit: a failed initialization is started again.
NeedsInitOrFailed == initPromise \in {"null", "rejected"}

\* if (!this.initPromise)
NeedsInit == initPromise = "null"

\* What a call finds in ensureRegistry: the registry ("ready"), nothing, so
\* that it starts the initialization ("created"), or an initialization
\* started by a call before it ("joined").
Found ==
    IF registry # Undefined THEN "ready"
    ELSE IF NeedsInit THEN "created"
    ELSE "joined"

\* ensureRegistry, up to its return or its await of this.initPromise
ensureRegistry ==
    /\ initPromise' = (IF Found = "created" THEN "pending" ELSE initPromise)
    /\ created' = (IF Found = "created" THEN created + 1 ELSE created)
    /\ registry' = registry

NewCall(op, input) ==
    [op |-> op, input |-> input, pc |-> "ensureRegistry", found |-> Found,
     used |-> Undefined, registryResult |-> Unsettled, result |-> Unsettled,
     canonicalized |-> 0, hashed |-> 0]

\* pipeline.convert(input) is called
CallConvert ==
    /\ Len(calls) < MaxCalls
    /\ \E input \in ConvertInputs :
         calls' = Append(calls, NewCall("convert", input))
    /\ ensureRegistry
    /\ UNCHANGED << backlogVars, canonVars, registryVars, mimeVars, moreVars >>

\* pipeline.listConverters() is called
CallListConverters ==
    /\ Len(calls) < MaxCalls
    /\ calls' = Append(calls, NewCall("listConverters", NoInput))
    /\ ensureRegistry
    /\ UNCHANGED << backlogVars, canonVars, registryVars, mimeVars, moreVars >>

\* The promise of createDefaultRegistry settles: .then((r) => { this.registry
\* = r }), or a dynamic import has failed.
CreateSettles ==
    /\ initPromise = "pending"
    /\ \/ /\ initPromise' = "fulfilled"
          /\ registry' = Some(created)
       \/ /\ initPromise' = "rejected"
          /\ registry' = registry
    /\ UNCHANGED << created, calls >>
    /\ UNCHANGED << backlogVars, canonVars, registryVars, mimeVars, moreVars >>

Finished(c, r) == [c EXCEPT !.pc = "done", !.result = r]

\* The await of ensureRegistry is over.  convert goes on to call
\* registry.convert, or returns the INTERNAL error of its catch;
\* listConverters returns the ids, or rejects.
AfterEnsure(c) ==
    IF registry = Undefined
    THEN IF c.op = "convert"
         THEN Finished(c, Failure(internalError(c.input, "pipeline")))
         ELSE Finished(c, Rejected)
    ELSE IF c.op = "convert"
         THEN [c EXCEPT !.pc = "registry.convert", !.used = registry]
         ELSE [Finished(c, Listed(listConverters(RegistryConverters(registry))))
                 EXCEPT !.used = registry]

ResumeAfterEnsure ==
    /\ \E i \in 1..Len(calls) :
         /\ calls[i].pc = "ensureRegistry"
         /\ registry # Undefined \/ initPromise = "rejected"
         /\ calls' = [calls EXCEPT ![i] = AfterEnsure(calls[i])]
    /\ UNCHANGED << registry, initPromise, created >>
    /\ UNCHANGED << backlogVars, canonVars, registryVars, mimeVars, moreVars >>

\* Variant of PassThrough: the error is wrapped in an INTERNAL error of the
\* pipeline.
PassThroughWrapped(c, r) == Failure(internalError(c.input, "pipeline"))

\* if (!result.ok) return result
PassThrough(c, r) == r

\* Variant of Canonical: the raw markdown is kept as it is.
CanonicalSkipped(markdown) == markdown

\* const canonical = canonicalize(result.value.markdown)
Canonical(markdown) == canonicalize(markdown)

\* const artifact: ConversionArtifact = { ... }
Artifact(value) ==
    LET canonical == Canonical(value.markdown)
        hash == mirrorHash(canonical)
    IN  [markdown |-> canonical, mirrorHash |-> hash, title |-> value.title,
         languageHint |-> value.languageHint, meta |-> value.meta]

\* The await of registry.convert is over with r; the rest of convert.
AfterConvert(c, r) ==
    LET d == [c EXCEPT !.registryResult = r]
    IN  IF r.kind = "rejected" THEN Finished(d, Rejected)
        ELSE IF r.kind = "error" THEN Finished(d, PassThrough(d, r))
        ELSE [Finished(d, Success(Artifact(r.value)))
                EXCEPT !.canonicalized = 1, !.hashed = 1]

ConvertSettles ==
    /\ \E i \in 1..Len(calls) :
         /\ calls[i].pc = "registry.convert"
         /\ \E r \in registryConvert(RegistryConverters(calls[i].used),
                                     calls[i].input) :
              calls' = [calls EXCEPT ![i] = AfterConvert(calls[i], r)]
    /\ UNCHANGED << registry, initPromise, created >>
    /\ UNCHANGED << backlogVars, canonVars, registryVars, mimeVars, moreVars >>

\* The backlog processor is not running.
BacklogIdle ==
    /\ statsKind = "store"
    /\ vectors = {}
    /\ embedScript = "free"
    /\ vecDirty = FALSE
    /\ embedPortCalled = FALSE
    /\ batchSizeOpt = Undefined
    /\ pc = "idle"
    /\ cursor = Undefined
    /\ embedded = 0
    /\ errors = 0
    /\ batch = << >>
    /\ result = Running
    /\ cancelRequested = FALSE
    /\ runNo = 0
    /\ getCalls = 0
    /\ afterArg = Undefined
    /\ prevLast = Undefined
    /\ lastOutcome = "none"
    /\ embedCalls = 0
    /\ upsertCalls = 0
    /\ submitted = {}
    /\ syncCalls = 0
    /\ syncResult = "none"
    /\ emptySeen = FALSE
    /\ backlog0 = 0
    /\ prevRun = [result |-> Running, vectors |-> {}, backlog0 |-> 0]
    /\ failed = {}
    /\ consistent = TRUE
    /\ statsFailed = FALSE
    /\ fetched = 0

\* new ConversionPipeline(registry?)
PipelineInit ==
    /\ registry \in {Undefined, GivenRegistry}
    /\ initPromise = "null"
    /\ created = 0
    /\ calls = << >>
    /\ BacklogIdle
    /\ CanonIdle
    /\ RegistryIdle
    /\ MimeIdle
    /\ MoreIdle

PipelineNext ==
    \/ CallConvert
    \/ CallListConverters
    \/ CreateSettles
    \/ ResumeAfterEnsure
    \/ ConvertSettles

PipelineSpec == PipelineInit /\ [][PipelineNext]_vars

\* ======================================================================
\* Properties of ConversionPipeline
\* ======================================================================
DoneCalls == {i \in 1..Len(calls) : calls[i].pc = "done"}

\* C11: for a pipeline constructed without a registry, however its calls
\* to convert and listConverters interleave, createDefaultRegistry is
\* invoked at most once, and every call that gets a registry gets the one
\* object that invocation returned.
C11_SingleInit ==
    registry # GivenRegistry
    => /\ created <= 1
       /\ \A i \in 1..Len(calls) :
            calls[i].used # Undefined => calls[i].used = Some(1)
       /\ registry \in {Undefined, Some(1)}

\* A convert and a listConverters call, the second started while the
\* initialization begun by the first was pending, both completed with the
\* one registry.
C11_Witness ==
    /\ Len(calls) = 2
    /\ calls[1].found = "created"
    /\ calls[2].found = "joined"
    /\ {calls[1].op, calls[2].op} = {"convert", "listConverters"}
    /\ DoneCalls = {1, 2}
    /\ calls[1].used = Some(1)
    /\ calls[2].used = Some(1)
    /\ created = 1

ConvertCalls == {i \in 1..Len(calls) : calls[i].op = "convert"}

\* C12: every successful result of convert carries the canonicalize of the
\* raw markdown the selected converter returned, the SHA-256 of that
\* canonical markdown as mirrorHash, and the converter's title,
\* languageHint and meta as they were.
C12_ArtifactCanonicalAndHashed ==
    \A i \in ConvertCalls \cap DoneCalls :
        calls[i].result.kind = "ok"
        => LET raw == calls[i].registryResult.value
               artifact == calls[i].result.value
           IN  /\ calls[i].registryResult.kind = "ok"
               /\ artifact.markdown = canonicalize(raw.markdown)
               /\ artifact.mirrorHash = Sha256Hex(artifact.markdown)
               /\ artifact.title = raw.title
               /\ artifact.languageHint = raw.languageHint
               /\ artifact.meta = raw.meta

\* A convert whose converter returned markdown with a trailing space, a
\* CRLF and a blank line at the end, and a title and a language hint.
C12_Witness ==
    \E i \in ConvertCalls \cap DoneCalls :
        /\ calls[i].registryResult.kind = "ok"
        /\ calls[i].registryResult.value.markdown = << "e", SP, CR, LF, LF >>
        /\ calls[i].result.kind = "ok"
        /\ calls[i].result.value.markdown = << "e", LF >>
        /\ calls[i].result.value.mirrorHash = Sha256Hex(<< "e", LF >>)
        /\ calls[i].result.value.title = "T"
        /\ calls[i].result.value.meta = "native/markdown"

\* C13: when registry.convert resolves with an error result (UNSUPPORTED
\* when no converter matches, or a converter's error), convert returns that
\* same result, every field as it was, and neither canonicalizes nor
\* hashes.
C13_ErrorPassesThrough ==
    \A i \in ConvertCalls \cap DoneCalls :
        calls[i].registryResult.kind = "error"
        => /\ calls[i].result = calls[i].registryResult
           /\ calls[i].canonicalized = 0
           /\ calls[i].hashed = 0

\* Two converts, one for which no converter matched, one whose converter
\* timed out.
C13_Witness ==
    /\ DoneCalls = {1, 2}
    /\ calls[1].result.kind = "error"
    /\ calls[1].result.error = unsupportedError(calls[1].input)
    /\ calls[1].input.ext = Str(".unknown")
    /\ calls[2].result.kind = "error"
    /\ calls[2].result.error.code = "TIMEOUT"
    /\ calls[2].result.error.retryable
    /\ calls[2].result.error.converterId = "native/markdown"

\* The lazy initialization of the pipeline has failed.
InitFailed == initPromise = "rejected"

\* C32: once createDefaultRegistry has rejected, the initialization is
\* never attempted again on that pipeline: every later convert call
\* returns an INTERNAL error with fatal = true and converterId 'pipeline',
\* and no converter is invoked.
C32_FailedInitIsFinal ==
    /\ [](InitFailed
          => (/\ created = 1
              /\ registry = Undefined
              /\ \A i \in ConvertCalls :
                   /\ calls[i].pc \in {"ensureRegistry", "done"}
                   /\ calls[i].used = Undefined
                   /\ calls[i].registryResult = Unsettled
                   /\ calls[i].pc = "done"
                        => (/\ calls[i].result
                                 = Failure(internalError(calls[i].input,
                                                         "pipeline"))
                            /\ calls[i].result.error.code = "INTERNAL"
                            /\ calls[i].result.error.fatal
                            /\ calls[i].result.error.converterId
                                 = "pipeline")))
    /\ [][InitFailed
          => (/\ InitFailed'
              /\ created' = created
              /\ \A i \in 1..Len(calls') :
                   i > Len(calls) => calls'[i].found = "joined")]_vars

\* Two convert calls with different inputs on a pipeline whose
\* initialization failed; the second did not start another initialization
\* and both returned the INTERNAL error.
C32_Witness ==
    /\ InitFailed
    /\ ConvertCalls = {1, 2}
    /\ DoneCalls = {1, 2}
    /\ calls[1].found = "created"
    /\ calls[2].found = "joined"
    /\ calls[2].result.error.code = "INTERNAL"
    /\ calls[2].input # calls[1].input

\* ======================================================================
\* canonicalize applied to a text, and again to what it returned
\* ======================================================================
MaxLen == 5           \* characters of the text given to canonicalize

\* The characters of the texts given to canonicalize.
Alphabet == {"e", ACUTE, SP, TAB, LF, CR, CTL}

Texts == UNION {[1..n -> Alphabet] : n \in 0..MaxLen}

CanonInit ==
    /\ canonIn \in Texts
    /\ canonOut = << >>
    /\ canonRuns = 0
    /\ BacklogIdle
    /\ PipelineIdle
    /\ RegistryIdle
    /\ MimeIdle
    /\ MoreIdle

\* canonicalize(x)
Canonicalize ==
    /\ canonRuns = 0
    /\ canonOut' = canonicalize(canonIn)
    /\ canonRuns' = 1
    /\ UNCHANGED canonIn
    /\ UNCHANGED << backlogVars, pipelineVars, registryVars, mimeVars, moreVars >>

\* canonicalize(canonicalize(x))
Recanonicalize ==
    /\ canonRuns = 1
    /\ canonOut' = canonicalize(canonOut)
    /\ canonRuns' = 2
    /\ UNCHANGED canonIn
    /\ UNCHANGED << backlogVars, pipelineVars, registryVars, mimeVars, moreVars >>

CanonNext ==
    \/ Canonicalize
    \/ Recanonicalize

CanonSpec == CanonInit /\ [][CanonNext]_vars

\* ======================================================================
\* Properties of canonicalize
\* ======================================================================
\* C14 as stated: canonicalize(canonicalize(x)) = canonicalize(x) for every
\* text x, a text in which a stripped control character stood between a
\* letter and a combining mark included.
C14_Idempotent ==
    [][canonRuns = 1 => canonOut' = canonOut]_vars

\* C15: whatever the input, the output of canonicalize has no carriage
\* return and no control character other than newline and tab, its last
\* character is a newline and the character before that, if there is one,
\* is not a newline.
C15_CanonicalBytes ==
    canonRuns >= 1
    => /\ \A i \in 1..Len(canonOut) : canonOut[i] \notin {CR, CTL}
       /\ Len(canonOut) >= 1
       /\ canonOut[Len(canonOut)] = LF
       /\ Len(canonOut) >= 2 => canonOut[Len(canonOut) - 1] # LF

\* A text with a tab, a control character and two carriage returns at its
\* end: the tab is kept, one newline ends the output.
C15_Witness ==
    /\ canonRuns = 1
    /\ canonIn = << TAB, CTL, "e", CR, CR >>
    /\ canonOut = << TAB, "e", LF >>

\* The lines of a text that ends with a newline, the newline of each left
\* out.
Lines(s) == SubSeq(split(s), 1, Len(split(s)) - 1)

\* The lines of the input as rules 1 to 5 leave them: newlines normalized,
\* NFC applied, control characters stripped, white space at the end of each
\* line removed.
InputLines ==
    TrimLines(split(StripControl(normalizeNFC(ReplaceCR(
        ReplaceCRLF(canonIn))))))

\* The positions of the lines with content, in order.
RECURSIVE ContentFrom(_, _)
ContentFrom(lines, i) ==
    IF i > Len(lines) THEN << >>
    ELSE (IF lines[i] # << >> THEN << i >> ELSE << >>)
         \o ContentFrom(lines, i + 1)

ContentPositions(lines) == ContentFrom(lines, 1)

ContentLines(lines) ==
    LET at == ContentPositions(lines)
    IN  [k \in 1..Len(at) |-> lines[at[k]]]

\* The number of blank lines between the k-th line with content and the
\* next one, at the positions of the lines with content.
BlankAfter(at, k) == at[k + 1] - at[k] - 1

\* C16: in the output of canonicalize no line ends in white space and no
\* two consecutive lines are both empty; the lines with content are those
\* of the input in the same order, a run of blank (empty or white-space
\* only) lines between two of them has become exactly one blank line, and
\* an input that is empty or has only white-space-only lines gives a single
\* newline.
C16_BlankLinesCollapsed ==
    LET out == Lines(canonOut)
        in == InputLines
        outAt == ContentPositions(out)
        inAt == ContentPositions(in)
    IN  /\ canonRuns >= 1
           => /\ \A i \in 1..Len(out) :
                    out[i] = << >> \/ out[i][Len(out[i])] \notin WhiteSpace
              /\ \A i \in 1..(Len(out) - 1) :
                    ~(out[i] = << >> /\ out[i + 1] = << >>)
        /\ canonRuns = 1
           => /\ ContentLines(out) = ContentLines(in)
              /\ \A k \in 1..(Len(inAt) - 1) :
                    BlankAfter(outAt, k) = Min2(BlankAfter(inAt, k), 1)
              /\ (\A i \in 1..Len(canonIn) : canonIn[i] \in WhiteSpace)
                    => canonOut = << LF >>

\* Two lines with content and two blank lines between them: one is left.
C16_Witness ==
    /\ canonRuns = 1
    /\ canonIn = << "e", LF, LF, LF, "e" >>
    /\ canonOut = << "e", LF, LF, "e", LF >>

\* ======================================================================
\* A ConverterRegistry: register, createDefaultRegistry, select
\* ======================================================================
MaxConverters == 3    \* converters registered one by one on a registry

\* The converters that may be registered: the four of the default
\* registry and the two of the tests that handle everything.
ConverterIds ==
    {"native/markdown", "native/plaintext", "adapter/markitdown-ts",
     "adapter/officeparser", "first", "second"}

\* The mime and ext arguments of select; "TEXT/markdown" and ".MD" are the
\* ones with upper-case letters.
Mimes ==
    {MarkdownMime, PlainMime, PdfMime, DocxMime, XlsxMime, PptxMime,
     Str("unknown/type"), Cased("text/markdown", {1, 2, 3, 4})}

Exts ==
    {Str(".md"), Str(".txt"), Str(".pdf"), Str(".docx"), Str(".xlsx"),
     Str(".pptx"), Str(".unknown"), Cased(".md", {2, 3})}

\* new ConverterRegistry()
RegistryInit ==
    /\ converters = << >>
    /\ isDefault = FALSE
    /\ selIn = Undefined
    /\ selOut = None
    /\ BacklogIdle
    /\ PipelineIdle
    /\ CanonIdle
    /\ MimeIdle
    /\ MoreIdle

\* registry.register(converter)
Register ==
    /\ Len(converters) < MaxConverters
    /\ \E c \in ConverterIds : converters' = Append(converters, c)
    /\ isDefault' = FALSE
    /\ selIn' = Undefined
    /\ selOut' = None
    /\ UNCHANGED << backlogVars, pipelineVars, canonVars, mimeVars, moreVars >>

\* createDefaultRegistry(): a new registry with the four converters
CreateDefaultRegistry ==
    /\ converters = << >>
    /\ selIn = Undefined
    /\ converters' = DefaultConverters
    /\ isDefault' = TRUE
    /\ UNCHANGED << selIn, selOut >>
    /\ UNCHANGED << backlogVars, pipelineVars, canonVars, mimeVars, moreVars >>

\* registry.select(mime, ext).  select changes nothing in the registry, so
\* one select is followed from each registry.
Select ==
    /\ selIn = Undefined
    /\ \E mime \in Mimes, ext \in Exts :
         /\ selIn' = Some([mime |-> mime, ext |-> ext])
         /\ selOut' = select(converters, mime, ext)
    /\ UNCHANGED << converters, isDefault >>
    /\ UNCHANGED << backlogVars, pipelineVars, canonVars, mimeVars, moreVars >>

RegistryNext ==
    \/ Register
    \/ CreateDefaultRegistry
    \/ Select

RegistrySpec == RegistryInit /\ [][RegistryNext]_vars

\* ======================================================================
\* Properties of ConverterRegistry
\* ======================================================================
\* The registered converters for which canHandle(m, e) is true, by their
\* place in the registration order.
Handlers(m, e) == {i \in 1..Len(converters) : canHandle(converters[i], m, e)}

\* out is the first registered converter among those at the places H, or
\* undefined when there is none.
FirstOf(H, out) ==
    IF H = {} THEN out = None
    ELSE \E i \in H : out = converters[i] /\ \A j \in H : i <= j

\* C17 as stated: select returns the first converter in registration order
\* whose canHandle(mime, ext) is true for the mime and ext it was given,
\* and undefined when there is none.
C17_Original ==
    selIn # Undefined
    => FirstOf(Handlers(selIn[1].mime, selIn[1].ext), selOut)

\* C17 amended: select lower-cases the mime and the ext and returns the
\* first converter in registration order whose canHandle is true for the
\* lower-cased pair, undefined when there is none; a converter registered
\* later is never selected when an earlier one handles that pair.
C17_FirstMatchLowerCased ==
    selIn # Undefined
    => FirstOf(Handlers(toLowerCase(selIn[1].mime),
                        toLowerCase(selIn[1].ext)), selOut)

\* select("unknown/type", ".MD") on a registry of native/markdown and a
\* converter that handles everything, registered in that order.
C17_Witness ==
    /\ converters = << "native/markdown", "first" >>
    /\ selIn = Some([mime |-> Str("unknown/type"), ext |-> Cased(".md", {2, 3})])
    /\ selOut = "native/markdown"

\* The mimes and the exts each converter of the default registry accepts.
Accepted(id) ==
    CASE id = "native/markdown" ->
           [mimes |-> {MarkdownMime}, exts |-> {Str(".md")}]
      [] id = "native/plaintext" ->
           [mimes |-> {PlainMime}, exts |-> {Str(".txt")}]
      [] id = "adapter/markitdown-ts" ->
           [mimes |-> {PdfMime, DocxMime, XlsxMime},
            exts |-> {Str(".pdf"), Str(".docx"), Str(".xlsx")}]
      [] id = "adapter/officeparser" ->
           [mimes |-> {PptxMime}, exts |-> {Str(".pptx")}]

Priority ==
    << "native/markdown", "native/plaintext", "adapter/markitdown-ts",
       "adapter/officeparser" >>

Accepting(mime, ext) ==
    {k \in 1..Len(Priority) :
        \/ mime \in Accepted(Priority[k]).mimes
        \/ ext \in Accepted(Priority[k]).exts}

Selects(mime, ext, id) ==
    selIn = Some([mime |-> mime, ext |-> ext]) => selOut = id

\* C18: on the default registry select gives native/markdown for
\* (text/markdown, .md), native/plaintext for (text/plain, .txt),
\* adapter/markitdown-ts for the PDF, DOCX and XLSX pairs,
\* adapter/officeparser for the PPTX pair, and in general the first of
\* native/markdown, native/plaintext, adapter/markitdown-ts,
\* adapter/officeparser that accepts the mime or the ext, so that
\* (application/pdf, .txt) gives native/plaintext.
C18_DefaultPriority ==
    isDefault
    => /\ Selects(MarkdownMime, Str(".md"), "native/markdown")
       /\ Selects(PlainMime, Str(".txt"), "native/plaintext")
       /\ Selects(PdfMime, Str(".pdf"), "adapter/markitdown-ts")
       /\ Selects(DocxMime, Str(".docx"), "adapter/markitdown-ts")
       /\ Selects(XlsxMime, Str(".xlsx"), "adapter/markitdown-ts")
       /\ Selects(PptxMime, Str(".pptx"), "adapter/officeparser")
       /\ Selects(PdfMime, Str(".txt"), "native/plaintext")
       /\ selIn # Undefined
          => LET A == Accepting(toLowerCase(selIn[1].mime),
                                toLowerCase(selIn[1].ext))
             IN  IF A = {} THEN selOut = None
                 ELSE \E k \in A : selOut = Priority[k] /\ \A j \in A : k <= j

\* select("application/pdf", ".txt") on the default registry.
C18_Witness ==
    /\ isDefault
    /\ selIn = Some([mime |-> PdfMime, ext |-> Str(".txt")])
    /\ selOut = "native/plaintext"

\* ======================================================================
\* DefaultMimeDetector: src/converters/mime.ts
\* ======================================================================
\* bytes.subarray(0, 512)
SniffLen == 512

EXTENSION_MAP ==
    (Str(".md") :> MarkdownMime) @@ (Str(".txt") :> PlainMime)
    @@ (Str(".pdf") :> PdfMime) @@ (Str(".docx") :> DocxMime)
    @@ (Str(".pptx") :> PptxMime) @@ (Str(".xlsx") :> XlsxMime)

OOXML_MAP ==
    (Str(".docx") :> DocxMime) @@ (Str(".pptx") :> PptxMime)
    @@ (Str(".xlsx") :> XlsxMime)

\* %PDF-
PDF_MAGIC == << 37, 80, 68, 70, 45 >>

\* PK\x03\x04
ZIP_MAGIC == << 80, 75, 3, 4 >>

startsWith(bytes, prefix) ==
    /\ Len(bytes) >= Len(prefix)
    /\ \A i \in 1..Len(prefix) : bytes[i] = prefix[i]

subarray(bytes, n) == SubSeq(bytes, 1, Min2(Len(bytes), n))

\* Object.hasOwn(map, key)
hasOwn(map, key) == key \in DOMAIN map

\* extname(path): the extension of the path, lower-cased
extname(path) == toLowerCase(path.ext)

\* Variant of sniffMagicBytes: the PDF magic bytes are not looked for.
sniffMagicBytesNoPdf(bytes, ext) ==
    IF startsWith(bytes, ZIP_MAGIC)
    THEN IF hasOwn(OOXML_MAP, ext)
         THEN Some([mime |-> OOXML_MAP[ext], pureSniff |-> FALSE])
         ELSE Some([mime |-> ZipMime, pureSniff |-> TRUE])
    ELSE Undefined

\* sniffMagicBytes(bytes, ext)
sniffMagicBytes(bytes, ext) ==
    IF startsWith(bytes, PDF_MAGIC)
    THEN Some([mime |-> PdfMime, pureSniff |-> TRUE])
    ELSE IF startsWith(bytes, ZIP_MAGIC)
    THEN IF hasOwn(OOXML_MAP, ext)
         THEN Some([mime |-> OOXML_MAP[ext], pureSniff |-> FALSE])
         ELSE Some([mime |-> ZipMime, pureSniff |-> TRUE])
    ELSE Undefined

\* Variant of Confidence: every sniffed result has confidence high.
ConfidenceHigh(pureSniff) == "high"

\* confidence: sniffed.pureSniff ? 'high' : 'medium'
Confidence(pureSniff) == IF pureSniff THEN "high" ELSE "medium"

\* Variant of Via: every sniffed result is reported as a pure sniff.
ViaSniff(pureSniff) == "sniff"

\* via: sniffed.pureSniff ? 'sniff' : 'sniff+ext'
Via(pureSniff) == IF pureSniff THEN "sniff" ELSE "sniff+ext"

\* detect(path, bytes)
detect(path, bytes) ==
    LET ext == extname(path)
        sniffed == sniffMagicBytes(subarray(bytes, SniffLen), ext)
    IN  IF sniffed # Undefined
        THEN [mime |-> sniffed[1].mime, ext |-> ext,
              confidence |-> Confidence(sniffed[1].pureSniff),
              via |-> Via(sniffed[1].pureSniff)]
        ELSE IF hasOwn(EXTENSION_MAP, ext)
        THEN [mime |-> EXTENSION_MAP[ext], ext |-> ext,
              confidence |-> "medium", via |-> "ext"]
        ELSE [mime |-> OctetStreamMime, ext |-> ext, confidence |-> "low",
              via |-> "fallback"]

\* The paths given to detect, by their extension: the six of the extension
\* map, two that are not in it, none, and two with upper-case letters.
PathExts ==
    {Str(".md"), Str(".txt"), Str(".pdf"), Str(".docx"), Str(".pptx"),
     Str(".xlsx"), Str(".zip"), Str(".xyz"), Str(""),
     Cased(".docx", {2, 3, 4, 5}), Cased(".md", {2, 3})}

Paths == {[name |-> "/path/to/file", ext |-> e] : e \in PathExts}

\* The bytes given to detect: every prefix of the two magic numbers,
\* followed by nothing, by a zero byte or by two other bytes.
Tails == {<< >>, << 0 >>, << 49, 46 >>}

ByteSamples ==
    {SubSeq(PDF_MAGIC, 1, k) \o t : k \in 0..Len(PDF_MAGIC), t \in Tails}
    \cup {SubSeq(ZIP_MAGIC, 1, k) \o t : k \in 0..Len(ZIP_MAGIC), t \in Tails}

MimeInit ==
    /\ detPath \in {Some(p) : p \in Paths}
    /\ detBytes \in ByteSamples
    /\ detection = Undefined
    /\ BacklogIdle
    /\ PipelineIdle
    /\ CanonIdle
    /\ RegistryIdle
    /\ MoreIdle

\* detector.detect(path, bytes)
Detect ==
    /\ detection = Undefined
    /\ detection' = Some(detect(detPath[1], detBytes))
    /\ UNCHANGED << detPath, detBytes >>
    /\ UNCHANGED << backlogVars, pipelineVars, canonVars, registryVars, moreVars >>

MimeNext == Detect

MimeSpec == MimeInit /\ [][MimeNext]_vars

\* ======================================================================
\* Properties of DefaultMimeDetector
\* ======================================================================
BeginsWith(prefix) ==
    /\ Len(detBytes) >= Len(prefix)
    /\ SubSeq(detBytes, 1, Len(prefix)) = prefix

OoxmlExts == {Str(".docx"), Str(".pptx"), Str(".xlsx")}

Detected(mime, confidence, via) ==
    /\ detection[1].mime = mime
    /\ detection[1].ext = extname(detPath[1])
    /\ detection[1].confidence = confidence
    /\ detection[1].via = via

\* C19: bytes that begin with %PDF- are detected as application/pdf, and
\* bytes that begin with PK 03 04 under an extension other than .docx,
\* .pptx, .xlsx as application/zip, both with confidence high and via
\* sniff, whatever the extension is.
C19_PureSniffFirst ==
    detection # Undefined
    => /\ BeginsWith(<< 37, 80, 68, 70, 45 >>)
          => Detected(PdfMime, "high", "sniff")
       /\ (BeginsWith(<< 80, 75, 3, 4 >>)
           /\ extname(detPath[1]) \notin OoxmlExts)
          => Detected(ZipMime, "high", "sniff")

\* A file named .md whose bytes begin with %PDF-.
C19_Witness ==
    /\ detPath[1].ext = Str(".md")
    /\ detBytes = << 37, 80, 68, 70, 45, 49, 46 >>
    /\ detection # Undefined
    /\ Detected(PdfMime, "high", "sniff")

OoxmlMime(ext) ==
    CASE ext = Str(".docx") -> DocxMime
      [] ext = Str(".pptx") -> PptxMime
      [] ext = Str(".xlsx") -> XlsxMime

DocxZip ==
    /\ detection # Undefined
    /\ BeginsWith(<< 80, 75, 3, 4 >>)
    /\ extname(detPath[1]) = Str(".docx")

MagicMatched(bytes) ==
    \/ startsWith(subarray(bytes, SniffLen), PDF_MAGIC)
    \/ startsWith(subarray(bytes, SniffLen), ZIP_MAGIC)

OoxmlMimes == {OOXML_MAP[e] : e \in DOMAIN OOXML_MAP}

MaxSize == 2          \* input.bytes.length and limits.maxBytes, at most
MaxTimeoutMs == 2     \* limits.timeoutMs, at most
MaxClock == 3         \* milliseconds followed after the call started

oldVars == << backlogVars, pipelineVars, canonVars, registryVars, mimeVars >>

OldIdle ==
    /\ BacklogIdle
    /\ PipelineIdle
    /\ CanonIdle
    /\ RegistryIdle
    /\ MimeIdle

tooLargeError(input, converterId) ==
    [code |-> "TOO_LARGE", retryable |-> FALSE, fatal |-> FALSE,
     converterId |-> converterId, mime |-> input.mime, ext |-> input.ext]

adapterError(input, converterId) ==
    [code |-> "ADAPTER_FAILURE", retryable |-> TRUE, fatal |-> FALSE,
     converterId |-> converterId, mime |-> input.mime, ext |-> input.ext]

\* ConvertInput: mime, ext, bytes.length (size) and limits
CvInputs ==
    [mime : {MarkdownMime, PptxMime}, ext : {Str(".md"), Str(".pptx")},
     size : 0..MaxSize, maxBytes : 1..MaxSize, timeoutMs : 1..MaxTimeoutMs]

\* How the promise of the underlying library settles: with markdown (text),
\* with none, rejected, rejected with an Error whose message is 'TIMEOUT'.
LibraryOutcomes == {"markdown", "empty", "rejected", "rejectedTimeout"}

\* The value of a successful conversion (the text itself is left open).
CvOutput(converterId) ==
    ConvertOutput(<< "e", LF >>, [title |-> "T", languageHint |-> None],
                  converterId)

\* input.bytes.length > input.limits.maxBytes
TooLarge(input) == input.size > input.maxBytes

\* The converters whose convert awaits a library.
Adapters == {"adapter/markitdown-ts", "adapter/officeparser"}

\* The converter races its library against setTimeout(.., timeoutMs).
RacesTimer(converterId) == converterId = "adapter/markitdown-ts"

\* converter.convert(input), up to its first await
Convert(converterId, input) ==
    /\ cvPc = "idle"
    /\ cvId' = Some(converterId)
    /\ cvInput' = Some(input)
    /\ IF converterId \notin Adapters
       THEN /\ cvResult' = Some(Success(CvOutput(converterId)))
            /\ cvPc' = "done"
            /\ UNCHANGED << cvTimer, cvLibrary >>
       ELSE IF TooLarge(input)
       THEN /\ cvResult' = Some(Failure(tooLargeError(input, converterId)))
            /\ cvPc' = "done"
            /\ UNCHANGED << cvTimer, cvLibrary >>
       ELSE /\ cvTimer' = IF RacesTimer(converterId) THEN "armed" ELSE "none"
            /\ cvLibrary' = "pending"
            /\ cvPc' = "await"
            /\ UNCHANGED cvResult
    /\ UNCHANGED cvClock
    /\ UNCHANGED oldVars
    /\ MoreFrame("convert")

\* The timer is due: timeoutMs have elapsed and it has not been cleared.
TimerDue == cvTimer = "armed" /\ cvClock >= cvInput[1].timeoutMs

\* A millisecond passes while the call is suspended; a due timer runs
\* before more time passes.
TimePasses ==
    /\ cvPc = "await"
    /\ cvClock < MaxClock
    /\ ~TimerDue
    /\ cvClock' = cvClock + 1
    /\ UNCHANGED << cvId, cvInput, cvPc, cvTimer, cvLibrary, cvResult >>
    /\ UNCHANGED oldVars
    /\ MoreFrame("convert")

\* The timer rejects with Error('TIMEOUT'): the race rejects, and the catch
\* block returns timeoutError.
TimerFires ==
    /\ cvPc = "await"
    /\ TimerDue
    /\ cvTimer' = "fired"
    /\ cvResult' = Some(Failure(timeoutError(cvInput[1], cvId[1])))
    /\ cvPc' = "done"
    /\ UNCHANGED << cvId, cvInput, cvClock, cvLibrary >>
    /\ UNCHANGED oldVars
    /\ MoreFrame("convert")

\* What convert returns when its library has settled with the outcome.
AfterLibrary(converterId, input, outcome) ==
    IF outcome = "markdown" THEN Success(CvOutput(converterId))
    ELSE IF outcome = "empty" THEN Failure(corruptError(input, converterId))
    ELSE IF outcome = "rejectedTimeout" /\ converterId = "adapter/markitdown-ts"
    THEN Failure(timeoutError(input, converterId))
    ELSE Failure(adapterError(input, converterId))

\* The library settles; the call resumes and returns.
LibrarySettles(outcome) ==
    /\ cvPc = "await"
    /\ cvLibrary = "pending"
    /\ cvLibrary' = outcome
    /\ cvTimer' = IF cvTimer = "armed" THEN "cleared" ELSE cvTimer
    /\ cvResult' = Some(AfterLibrary(cvId[1], cvInput[1], outcome))
    /\ cvPc' = "done"
    /\ UNCHANGED << cvId, cvInput, cvClock >>
    /\ UNCHANGED oldVars
    /\ MoreFrame("convert")

\* The library settles after the timer has fired and convert has returned:
\* the race is already settled, and nothing awaits the library's promise.
LibrarySettlesLate(outcome) ==
    /\ cvPc = "done"
    /\ cvTimer = "fired"
    /\ cvLibrary = "pending"
    /\ cvLibrary' = outcome
    /\ UNCHANGED << cvId, cvInput, cvPc, cvClock, cvTimer, cvResult >>
    /\ UNCHANGED oldVars
    /\ MoreFrame("convert")

ConvertInit ==
    /\ ConvertIdle
    /\ OldIdle
    /\ MoreIdleExcept("convert")

ConvertNext ==
    \/ \E i \in 1..Len(DefaultConverters) : \E input \in CvInputs :
           Convert(DefaultConverters[i], input)
    \/ TimePasses
    \/ TimerFires
    \/ \E outcome \in LibraryOutcomes : LibrarySettles(outcome)
    \/ \E outcome \in LibraryOutcomes : LibrarySettlesLate(outcome)

ConvertSpec == ConvertInit /\ [][ConvertNext]_vars

\* C22: every converter of the default registry enforces limits.timeoutMs:
\* once more than timeoutMs milliseconds have passed since convert was
\* called, the call has returned, and what it returned is the TIMEOUT error
\* (retryable, not fatal); it never goes on waiting for its library.
C22_TimeoutEnforced ==
    (cvInput # Undefined /\ cvClock > cvInput[1].timeoutMs)
        => /\ cvPc = "done"
           /\ cvResult = Some(Failure(timeoutError(cvInput[1], cvId[1])))
           /\ cvResult[1].error.retryable /\ ~cvResult[1].error.fatal

\* The part of C22 that holds: the converter that does race a timer.
C22_MarkitdownEnforced ==
    (cvId = Some("adapter/markitdown-ts") /\ cvPc = "await")
        => cvClock <= cvInput[1].timeoutMs

C22_MarkitdownWitness ==
    /\ cvId = Some("adapter/markitdown-ts")
    /\ cvTimer = "fired"
    /\ cvLibrary = "pending"
    /\ cvResult = Some(Failure(timeoutError(cvInput[1], cvId[1])))

\* A markitdownAdapter.convert call that started its timer has returned.
MarkitdownReturned ==
    /\ cvId = Some("adapter/markitdown-ts")
    /\ cvPc = "done"
    /\ cvTimer # "none"

\* What the claim has convert return when the conversion settled first.
ConversionResult(converterId, input, outcome) ==
    IF outcome = "markdown" THEN Success(CvOutput(converterId))
    ELSE IF outcome = "empty" THEN Failure(corruptError(input, converterId))
    ELSE Failure(adapterError(input, converterId))

\* The result is that of whichever settled first, and the timer is spent.
FirstSettledDecides(outcomes) ==
    MarkitdownReturned
    => /\ cvTimer \in {"cleared", "fired"}
       /\ (cvTimer = "cleared" /\ cvLibrary \in outcomes)
            => cvResult = Some(ConversionResult(cvId[1], cvInput[1],
                                                cvLibrary))
       /\ cvTimer = "fired"
            => cvResult = Some(Failure(timeoutError(cvInput[1], cvId[1])))

\* Once returned, the result stays, and a cleared timer never fires.
ResultIsFinal ==
    [][MarkitdownReturned
       => (/\ cvResult' = cvResult
           /\ cvPc' = "done"
           /\ cvTimer' = cvTimer)]_vars

\* C33: markitdownAdapter.convert returns the outcome of whichever of the
\* conversion and the timer settles first: the conversion's result (ok,
\* CORRUPT for empty markdown, ADAPTER_FAILURE) with the timer cleared, or
\* TIMEOUT when the timer fired, which a later completion of the conversion
\* does not change; on every return after the timer was started the timer
\* has been cleared or has fired.
C33_FirstSettledDecides ==
    /\ [] FirstSettledDecides(LibraryOutcomes)
    /\ ResultIsFinal

\* The same for every conversion outcome but a rejection with an Error
\* whose message is 'TIMEOUT'.
C33_FirstSettledDecidesUnlessNamedTimeout ==
    /\ [] FirstSettledDecides(LibraryOutcomes \ {"rejectedTimeout"})
    /\ ResultIsFinal

\* The conversion completed after the timer had fired and convert had
\* returned TIMEOUT.
C33_LateCompletion ==
    /\ MarkitdownReturned
    /\ cvTimer = "fired"
    /\ cvLibrary = "markdown"
    /\ cvResult = Some(Failure(timeoutError(cvInput[1], cvId[1])))

\* ------------------------------------------------------ converters/errors
\* ConvertErrorCode
ErrorCodes ==
    {"UNSUPPORTED", "TOO_LARGE", "TIMEOUT", "CORRUPT", "PERMISSION", "IO",
     "ADAPTER_FAILURE", "INTERNAL"}

\* Variant of isRetryable: only TIMEOUT is retryable.
isRetryableTimeoutOnly(code) == code = "TIMEOUT"

\* isRetryable(code)
isRetryable(code) == code \in {"TIMEOUT", "IO", "ADAPTER_FAILURE"}

\* The helper constructors of errors.ts.
Helpers ==
    {"unsupportedError", "tooLargeError", "timeoutError", "corruptError",
     "adapterError", "internalError"}

\* helper(input, converterId)
Helper(helper, input, converterId) ==
    CASE helper = "unsupportedError" -> unsupportedError(input)
      [] helper = "tooLargeError" -> tooLargeError(input, converterId)
      [] helper = "timeoutError" -> timeoutError(input, converterId)
      [] helper = "corruptError" -> corruptError(input, converterId)
      [] helper = "adapterError" -> adapterError(input, converterId)
      [] helper = "internalError" -> internalError(input, converterId)

\* The inputs and converter ids the helpers are called with.
ErrorInputs == [mime : Mimes, ext : Exts]

ErrorConverterIds == {DefaultConverters[i] : i \in 1..Len(DefaultConverters)}

\* A helper constructor is called.
CallHelper(helper, input, converterId) ==
    /\ erCall = Undefined
    /\ erCall' = Some([fn |-> helper, input |-> input,
                       converterId |-> converterId, code |-> None])
    /\ erOut' = Some([error |-> Helper(helper, input, converterId),
                      flag |-> FALSE])
    /\ UNCHANGED oldVars
    /\ MoreFrame("errors")

\* isRetryable is called.
CallIsRetryable(code) ==
    /\ erCall = Undefined
    /\ erCall' = Some([fn |-> "isRetryable", input |-> NoInput,
                       converterId |-> None, code |-> code])
    /\ erOut' = Some([error |-> NoError, flag |-> isRetryable(code)])
    /\ UNCHANGED oldVars
    /\ MoreFrame("errors")

ErrorsInit ==
    /\ ErrorsIdle
    /\ OldIdle
    /\ MoreIdleExcept("errors")

ErrorsNext ==
    \/ \E helper \in Helpers, input \in ErrorInputs,
          converterId \in ErrorConverterIds :
           CallHelper(helper, input, converterId)
    \/ \E code \in ErrorCodes : CallIsRetryable(code)

ErrorsSpec == ErrorsInit /\ [][ErrorsNext]_vars

\* C23: isRetryable(code) is true exactly for TIMEOUT, IO and
\* ADAPTER_FAILURE; every error built by a helper constructor has a
\* retryable flag equal to isRetryable of its code, which is true for
\* timeoutError and adapterError and false for the other four; and
\* internalError is the only helper that sets fatal.
C23_RetryableFlags ==
    erOut # Undefined =>
        IF erCall[1].fn = "isRetryable"
        THEN erOut[1].flag
                 <=> erCall[1].code \in {"TIMEOUT", "IO", "ADAPTER_FAILURE"}
        ELSE LET e == erOut[1].error
             IN  /\ e.retryable <=> isRetryable(e.code)
                 /\ e.retryable
                        <=> erCall[1].fn \in {"timeoutError", "adapterError"}
                 /\ e.fatal <=> erCall[1].fn = "internalError"

C23_Witness ==
    /\ erCall # Undefined
    /\ erCall[1].fn = "internalError"
    /\ erOut[1].error.code = "INTERNAL"
    /\ erOut[1].error.fatal
    /\ ~erOut[1].error.retryable
    /\ ~isRetryable("INTERNAL")

\* ------------------------------------------------------- native/markdown
\* The text of a file is given by its lines (text.split("\n")); a line is
\* a sequence of characters without a newline.
MaxLines == 3         \* lines of a file

HASH == "#"
TICK == "BACKTICK"
TILDE == "~"

\* What the patterns and trim() take for white space, among the
\* characters used here.
Blank == {SP, TAB}

\* The number of characters c a line starts with.
RECURSIVE RunLen(_, _)
RunLen(line, c) ==
    IF line # << >> /\ Head(line) = c THEN 1 + RunLen(Tail(line), c) ELSE 0

\* line.trimStart()
RECURSIVE trimStart(_)
trimStart(line) ==
    IF line # << >> /\ Head(line) \in Blank THEN trimStart(Tail(line))
    ELSE line

\* line.trimEnd(), for the white space of Blank
RECURSIVE trimRight(_)
trimRight(line) ==
    IF line # << >> /\ line[Len(line)] \in Blank
    THEN trimRight(SubSeq(line, 1, Len(line) - 1))
    ELSE line

\* line.trim()
trim(line) == trimRight(trimStart(line))

\* line.match(CODE_FENCE_START)?.[1]: the run of three or more backticks,
\* or of three or more tildes, the line starts with; << >> without one.
FenceMatch(line) ==
    IF RunLen(line, TICK) >= 3 THEN SubSeq(line, 1, RunLen(line, TICK))
    ELSE IF RunLen(line, TILDE) >= 3 THEN SubSeq(line, 1, RunLen(line, TILDE))
    ELSE << >>

\* isClosingFence(line, fenceChar, fenceLen)
isClosingFence(line, fenceChar, fenceLen) ==
    LET trimmed == trim(line)
    IN  /\ Len(trimmed) >= fenceLen
        /\ \A i \in 1..Len(trimmed) : trimmed[i] = fenceChar

\* line.match(HEADING_PATTERN)?.[1]: the pattern takes leading white space,
\* a '#', white space, and captures what follows, at least one character.
\* The white space after the '#' is matched greedily and gives a character
\* back when nothing follows it, so the capture of a line that ends in two
\* or more white-space characters after the '#' is the last of them.
\* Undefined without a match.
HeadingMatch(line) ==
    LET rest == trimStart(line)
    IN  IF rest = << >> \/ Head(rest) # HASH THEN Undefined
        ELSE LET after == Tail(rest)
                 text == trimStart(after)
                 spaces == Len(after) - Len(text)
             IN  IF spaces = 0 THEN Undefined
                 ELSE IF text # << >> THEN Some(text)
                 ELSE IF spaces >= 2 THEN Some(<< after[Len(after)] >>)
                 ELSE Undefined

\* for (const line of lines) { ... } of extractFirstHeading, entered with
\* the given fenceChar and fenceLen
RECURSIVE Scan(_, _, _)
Scan(lines, fenceChar, fenceLen) ==
    IF lines = << >> THEN Undefined
    ELSE LET line == Head(lines)
         IN  IF fenceLen > 0
             THEN IF isClosingFence(line, fenceChar, fenceLen)
                  THEN Scan(Tail(lines), "", 0)
                  ELSE Scan(Tail(lines), fenceChar, fenceLen)
             ELSE IF FenceMatch(line) # << >>
             THEN Scan(Tail(lines), Head(FenceMatch(line)),
                       Len(FenceMatch(line)))
             ELSE IF HeadingMatch(line) # Undefined
                     /\ HeadingMatch(line)[1] # << >>
             THEN Some(trim(HeadingMatch(line)[1]))
             ELSE Scan(Tail(lines), fenceChar, fenceLen)

\* extractFirstHeading(markdown), markdown given by its lines
extractFirstHeading(lines) == Scan(lines, "", 0)

\* basenameWithoutExt(relativePath)
basenameWithoutExt(path) == path.base

\* extractFirstHeading(text) || basenameWithoutExt(input.relativePath)
Title(lines, path) ==
    LET heading == extractFirstHeading(lines)
    IN  IF heading # Undefined /\ heading[1] # << >> THEN heading[1]
        ELSE basenameWithoutExt(path)

\* The lines files are made of: text, headings of level 1 and 2, a '#'
\* followed by white space only, fences of both characters and several
\* lengths, with an info string, indented, and too short.
TitleLines ==
    {<< >>, << "t" >>,
     << HASH, SP, "t" >>, << SP, HASH, SP, "t", SP >>,
     << HASH, SP >>, << HASH, SP, SP >>,
     << HASH, HASH, SP, "t" >>, << HASH, "t" >>,
     << TICK, TICK, TICK >>, << TICK, TICK, TICK, TICK >>,
     << TILDE, TILDE, TILDE >>, << TICK, TICK, TICK, "t" >>,
     << SP, TICK, TICK, TICK >>, << TICK, TICK >>}

RECURSIVE LinesUpTo(_)
LinesUpTo(n) ==
    IF n = 1 THEN {<< l >> : l \in TitleLines}
    ELSE LinesUpTo(n - 1)
         \cup {ls \o << l >> : ls \in LinesUpTo(n - 1), l \in TitleLines}

\* input.relativePath: directory, base name, extension
TitlePaths == {[dir |-> "notes", base |-> << "f" >>, ext |-> ".md"]}

MarkdownFiles ==
    [lines : LinesUpTo(MaxLines), bom : BOOLEAN, path : TitlePaths]

\* markdownConverter.convert(input): the bytes are decoded, a BOM at the
\* start is dropped, and the title is taken from what remains.
MarkdownConvert ==
    /\ mdIn # Undefined
    /\ mdOut = Undefined
    /\ mdOut' = Some(Title(mdIn[1].lines, mdIn[1].path))
    /\ UNCHANGED mdIn
    /\ UNCHANGED oldVars
    /\ MoreFrame("title")

TitleInit ==
    /\ mdIn \in {Some(f) : f \in MarkdownFiles}
    /\ mdOut = Undefined
    /\ OldIdle
    /\ MoreIdleExcept("title")

TitleNext == MarkdownConvert

TitleSpec == TitleInit /\ [][TitleNext]_vars

\* ---- C24.  The claim is read in the code's favour where its words leave
\* room: a level-1 heading line may be indented, has white space after its
\* '#' and some text after that, and its text is what follows the '#',
\* trimmed; a closing fence line may have white space around it.
IsHeadingLine(line) ==
    LET rest == trimStart(line)
    IN  /\ Len(rest) >= 2
        /\ rest[1] = HASH
        /\ rest[2] \in Blank
        /\ trim(Tail(rest)) # << >>

HeadingText(line) == trim(Tail(trimStart(line)))

OpensFence(line) == RunLen(line, TICK) >= 3 \/ RunLen(line, TILDE) >= 3

NoFence == [char |-> "", len |-> 0]

ClosesFence(line, fence) ==
    /\ Len(trim(line)) >= fence.len
    /\ \A i \in 1..Len(trim(line)) : trim(line)[i] = fence.char

\* The fence that is open before line i.
RECURSIVE FenceBefore(_, _)
FenceBefore(lines, i) ==
    IF i = 1 THEN NoFence
    ELSE LET fence == FenceBefore(lines, i - 1)
             line == lines[i - 1]
         IN  IF fence.len > 0
             THEN IF ClosesFence(line, fence) THEN NoFence ELSE fence
             ELSE IF RunLen(line, TICK) >= 3
             THEN [char |-> TICK, len |-> RunLen(line, TICK)]
             ELSE IF RunLen(line, TILDE) >= 3
             THEN [char |-> TILDE, len |-> RunLen(line, TILDE)]
             ELSE NoFence

\* The heading lines that lie outside every code fence.
HeadingsOutside(lines) ==
    {i \in 1..Len(lines) : /\ FenceBefore(lines, i).len = 0
                           /\ ~OpensFence(lines[i])
                           /\ IsHeadingLine(lines[i])}

\* C24: the title markdownConverter returns is the text of the first
\* level-1 heading line outside every code fence, and the base name of the
\* file without its extension when there is no such line.
C24_TitleIsFirstHeading ==
    mdOut # Undefined =>
        LET lines == mdIn[1].lines
            found == HeadingsOutside(lines)
        IN  mdOut[1] =
                IF found = {} THEN mdIn[1].path.base
                ELSE HeadingText(lines[CHOOSE i \in found :
                                           \A j \in found : i <= j])

\* A '#' followed by two or more white-space characters and nothing else.
BlankHeading(line) ==
    HeadingMatch(line) # Undefined /\ trim(HeadingMatch(line)[1]) = << >>

\* The part of C24 that holds: files without such a line.
C24_TitleWithoutBlankHeading ==
    (mdOut # Undefined
         /\ \A i \in 1..Len(mdIn[1].lines) : ~BlankHeading(mdIn[1].lines[i]))
        => LET lines == mdIn[1].lines
               found == HeadingsOutside(lines)
           IN  mdOut[1] =
                   IF found = {} THEN mdIn[1].path.base
                   ELSE HeadingText(lines[CHOOSE i \in found :
                                              \A j \in found : i <= j])

\* ----------------------------------------------------- createChunkLookup
\* The caller keeps the Map it gave to createChunkLookup and may go on
\* adding chunks to it between lookups.
MaxArray == 2         \* chunks of one hash
MaxSeq == 1           \* seq values are 0..MaxSeq

LookupSeqs == 0..MaxSeq

\* ChunkRow: its hash, its seq, and which object it is (the position it was
\* added at); the other columns are left out.
ChunkRow(hash, seq, id) == [mirrorHash |-> hash, seq |-> seq, id |-> id]

\* new Map<number, ChunkRow>()
EmptyBySeq == [seq \in LookupSeqs |-> Undefined]

\* Variant of KeepFirst: every chunk is set, a later one replaces an
\* earlier one.
KeepAlways(bySeq, ch) == TRUE

\* if (!bySeq.has(ch.seq))
KeepFirst(bySeq, ch) == bySeq[ch.seq] = Undefined

\* for (const ch of chunks) { ... }, entered with the given bySeq
RECURSIVE IndexChunks(_, _)
IndexChunks(chunks, bySeq) ==
    IF chunks = << >> THEN bySeq
    ELSE IndexChunks(Tail(chunks),
                     IF KeepFirst(bySeq, Head(chunks))
                     THEN [bySeq EXCEPT ![Head(chunks).seq] = Some(Head(chunks))]
                     ELSE bySeq)

\* chunksMap.get(hash) ?? []
ChunksOf(map, hash) == IF map[hash] = Undefined THEN << >> ELSE map[hash][1]

\* The lookup function: (hash, seq) => ChunkRow | undefined
Lookup(hash, seq) ==
    LET cached == indexCache[hash]
        chunks == ChunksOf(chunksMap, hash)
        bySeq == IF cached = Undefined THEN IndexChunks(chunks, EmptyBySeq)
                 ELSE cached[1]
    IN  /\ indexCache' = [indexCache EXCEPT ![hash] = Some(bySeq)]
        /\ lkFirst' = IF cached = Undefined
                      THEN [lkFirst EXCEPT ![hash] = Some(chunks)]
                      ELSE lkFirst
        /\ lkCall' = Some([hash |-> hash, seq |-> seq])
        /\ lkOut' = bySeq[seq]
        /\ UNCHANGED chunksMap
        /\ UNCHANGED oldVars
        /\ MoreFrame("lookup")

\* The caller adds a chunk to the array of a hash, or sets the hash.
PushChunk(hash, seq) ==
    LET chunks == ChunksOf(chunksMap, hash)
    IN  /\ Len(chunks) < MaxArray
        /\ chunksMap' =
               [chunksMap EXCEPT ![hash] =
                    Some(chunks \o << ChunkRow(hash, seq, Len(chunks) + 1) >>)]
        /\ UNCHANGED << indexCache, lkCall, lkOut, lkFirst >>
        /\ UNCHANGED oldVars
        /\ MoreFrame("lookup")

LookupInit ==
    /\ LookupIdle
    /\ OldIdle
    /\ MoreIdleExcept("lookup")

LookupNext ==
    \/ \E hash \in LookupHashes, seq \in LookupSeqs : Lookup(hash, seq)
    \/ \E hash \in LookupHashes, seq \in LookupSeqs : PushChunk(hash, seq)

LookupSpec == LookupInit /\ [][LookupNext]_vars

\* chunks.find((ch) => ch.seq === seq)
FindBySeq(chunks, seq) ==
    LET at == {i \in 1..Len(chunks) : chunks[i].seq = seq}
    IN  IF at = {} THEN Undefined
        ELSE Some(chunks[CHOOSE i \in at : \A j \in at : i <= j])

\* C25: a lookup returns what a linear find over chunksMap.get(hash), as it
\* was at the first lookup of that hash, returns: the first chunk in array
\* order with the given seq, never a later chunk with the same seq, and
\* undefined when the hash was absent or no chunk has that seq.
C25_FirstWins ==
    lkCall # Undefined =>
        LET hash == lkCall[1].hash
            seq == lkCall[1].seq
            chunks == lkFirst[hash][1]
        IN  /\ lkFirst[hash] # Undefined
            /\ lkOut = FindBySeq(chunks, seq)
            /\ (\A i \in 1..Len(chunks) : chunks[i].seq # seq)
                   => lkOut = Undefined
            /\ \A i \in 1..Len(chunks) :
                   (chunks[i].seq = seq
                        /\ \A j \in 1..(i - 1) : chunks[j].seq # seq)
                       => lkOut = Some(chunks[i])

\* A lookup of a seq that two chunks of the hash have.
C25_Witness ==
    /\ lkCall = Some([hash |-> "hash1", seq |-> 0])
    /\ lkFirst["hash1"] = Some(<< ChunkRow("hash1", 0, 1),
                                  ChunkRow("hash1", 0, 2) >>)
    /\ lkOut = Some(ChunkRow("hash1", 0, 1))

\* ------------------------------------------------------ handleDocSimilar
\* GET /api/doc/:id/similar.  The store and the vector index are ports: the
\* documents table is read by getDocumentByDocid and listDocuments, and
\* searchNearest answers with the vectors nearest to the query embedding,
\* ascending by distance.  Scores, thresholds and distances are counted in
\* tenths.
MaxLimitGiven == 2    \* the limit parameter of a request is 0..MaxLimitGiven

DefaultLimit == 5
MinLimit == 1
MaxLimit == 20
DefaultThreshold == 5
CandidateFactor == 20
CandidateCap == 200
Tenths == 10

Max2(a, b) == IF a >= b THEN a ELSE b

SimilarHashes == {"hq", "ha", "hb"}

\* parsePositiveInt(value, defaultValue, min, max), value numeric or absent
parsePositiveInt(value, defaultValue, min, max) ==
    IF value = Undefined THEN defaultValue
    ELSE Min2(Max2(value[1], min), max)

\* parseThreshold(value, defaultValue), value numeric or absent
parseThreshold(value, defaultValue) ==
    IF value = Undefined THEN defaultValue
    ELSE Max2(0, Min2(Tenths, value[1]))

\* ---- responses
ErrorResponse(code, status) ==
    [status |-> status, code |-> code, similar |-> << >>, docid |-> None,
     totalResults |-> 0, limit |-> 0, threshold |-> 0,
     crossCollection |-> FALSE]

SimilarResponse(similar, doc, limit, threshold, crossCollection) ==
    [status |-> 200, code |-> None,
     similar |-> SubSeq(similar, 1, Min2(limit, Len(similar))),
     docid |-> doc.docid, totalResults |-> Len(similar), limit |-> limit,
     threshold |-> threshold, crossCollection |-> crossCollection]

\* ---- the ports
\* store.getDocumentByDocid(docId): the row, or null
getDocumentByDocid(docs, docId) ==
    IF docId \in DOMAIN docs THEN Some(docs[docId]) ELSE Undefined

\* The orders listDocuments may return the rows in.
ListOrders == {<< "q", "a", "b" >>, << "b", "a", "q" >>}

RECURSIVE FilterCollection(_, _)
FilterCollection(rows, collection) ==
    IF rows = << >> THEN << >>
    ELSE (IF collection = Undefined \/ Head(rows).collection = collection[1]
          THEN << Head(rows) >> ELSE << >>)
         \o FilterCollection(Tail(rows), collection)

\* store.listDocuments(collection?)
listDocuments(docs, order, collection) ==
    FilterCollection([i \in 1..Len(order) |-> docs[order[i]]], collection)

\* vectorIndex.searchNearest(embedding, k, {}): the k nearest vectors
searchNearest(index, k) == SubSeq(index, 1, Min2(k, Len(index)))

\* Math.min(limit * 20, 200)
CandidateLimit(limit) == Min2(limit * CandidateFactor, CandidateCap)

\* ---- the loop over the hits
\* new Map(docsResult.value.filter(mirrorHash && active).map(...)): of the
\* rows with the same mirrorHash the Map keeps the last one.
DocsByHash(rows) ==
    [h \in SimilarHashes |->
        LET at == {i \in 1..Len(rows) :
                       rows[i].mirrorHash = Some(h) /\ rows[i].active}
        IN  IF at = {} THEN Undefined
            ELSE Some(rows[CHOOSE i \in at : \A j \in at : j <= i])]

\* Math.max(0, Math.min(1, 1 - vec.distance))
Score(distance) == Max2(0, Min2(Tenths, Tenths - distance))

\* Variant of IsSelf: the query document is not recognised.
IsSelfNever(similarDoc, doc) == FALSE

\* similarDoc.docid === doc.docid
IsSelf(similarDoc, doc) == similarDoc.docid = doc.docid

\* seenDocids.has(similarDoc.docid)
Seen(similar, docid) == \E i \in 1..Len(similar) : similar[i].docid = docid

\* for (const vec of searchResult.value) { ... }, entered with the given
\* similar
RECURSIVE Collect(_, _, _, _, _, _)
Collect(hits, similar, docsByHash, doc, limit, threshold) ==
    IF hits = << >> \/ Len(similar) >= limit THEN similar
    ELSE LET vec == Head(hits)
             similarDoc == docsByHash[vec.mirrorHash]
             skip == Collect(Tail(hits), similar, docsByHash, doc, limit,
                             threshold)
         IN  IF similarDoc = Undefined THEN skip
             ELSE IF IsSelf(similarDoc[1], doc) THEN skip
             ELSE IF Seen(similar, similarDoc[1].docid) THEN skip
             ELSE IF Score(vec.distance) < threshold THEN skip
             ELSE Collect(Tail(hits),
                          Append(similar,
                                 [docid |-> similarDoc[1].docid,
                                  collection |-> similarDoc[1].collection,
                                  score |-> Score(vec.distance)]),
                          docsByHash, doc, limit, threshold)

\* similar.sort((a, b) => b.score - a.score): stable, descending by score
RECURSIVE SortSimilar(_)
SortSimilar(similar) ==
    IF similar = << >> THEN << >>
    ELSE LET sorted == SortSimilar(SubSeq(similar, 1, Len(similar) - 1))
             e == similar[Len(similar)]
             k == Cardinality({i \in 1..Len(sorted) :
                                   sorted[i].score >= e.score})
         IN  SubSeq(sorted, 1, k) \o << e >>
             \o SubSeq(sorted, k + 1, Len(sorted))

\* ---- the request
SimilarParams ==
    [docId : {"q", "missing"},
     limit : {Undefined} \cup {Some(n) : n \in 0..MaxLimitGiven},
     threshold : {Undefined, Some(0), Some(8)},
     crossCollection : BOOLEAN,
     order : ListOrders]

Limit == parsePositiveInt(smReq[1].limit, DefaultLimit, MinLimit, MaxLimit)

Threshold == parseThreshold(smReq[1].threshold, DefaultThreshold)

\* handleDocSimilar(ctx, docId, url), up to its first await
SimilarRequest(params) ==
    /\ smPc = "idle"
    /\ smReq' = Some(params)
    /\ smPc' = "getDocumentByDocid"
    /\ UNCHANGED << smDocs, smIndex, smCtx, smHits, smSearches, smResp >>
    /\ UNCHANGED oldVars
    /\ MoreFrame("similar")

\* The response of the handler when it ends before the search.
EarlyResponse(docResult) ==
    IF docResult = Undefined THEN Some(ErrorResponse("NOT_FOUND", 404))
    ELSE IF ~smCtx.searchAvailable
    THEN Some(ErrorResponse("UNAVAILABLE", 503))
    ELSE IF docResult[1].mirrorHash = Undefined \/ smCtx.embeddings = "none"
    THEN Some(SimilarResponse(<< >>, docResult[1], Limit, Threshold,
                              smReq[1].crossCollection))
    ELSE IF smCtx.embeddings = "bad" THEN Some(ErrorResponse("RUNTIME", 500))
    ELSE Undefined

\* getDocumentByDocid settles; the handler runs to the await of
\* searchNearest, or returns.
GetDocumentSettles(ok) ==
    /\ smPc = "getDocumentByDocid"
    /\ LET early == IF ok
                    THEN EarlyResponse(getDocumentByDocid(smDocs,
                                                          smReq[1].docId))
                    ELSE Some(ErrorResponse("RUNTIME", 500))
       IN  IF early # Undefined
           THEN /\ smResp' = early
                /\ smPc' = "done"
                /\ UNCHANGED smSearches
           ELSE /\ smPc' = "searchNearest"
                /\ smSearches' = smSearches + 1
                /\ UNCHANGED smResp
    /\ UNCHANGED << smDocs, smIndex, smCtx, smReq, smHits >>
    /\ UNCHANGED oldVars
    /\ MoreFrame("similar")

\* searchNearest settles; the handler runs to the await of listDocuments.
SearchNearestSettles(ok) ==
    /\ smPc = "searchNearest"
    /\ IF ok
       THEN /\ smHits' = searchNearest(smIndex, CandidateLimit(Limit))
            /\ smPc' = "listDocuments"
            /\ UNCHANGED smResp
       ELSE /\ smResp' = Some(ErrorResponse("RUNTIME", 500))
            /\ smPc' = "done"
            /\ UNCHANGED smHits
    /\ UNCHANGED << smDocs, smIndex, smCtx, smReq, smSearches >>
    /\ UNCHANGED oldVars
    /\ MoreFrame("similar")

\* listDocuments settles; the handler builds the response.
ListDocumentsSettles(ok) ==
    /\ smPc = "listDocuments"
    /\ LET doc == smDocs[smReq[1].docId]
           rows == listDocuments(smDocs, smReq[1].order,
                                 IF smReq[1].crossCollection THEN Undefined
                                 ELSE Some(doc.collection))
           similar == SortSimilar(Collect(smHits, << >>, DocsByHash(rows),
                                          doc, Limit, Threshold))
       IN  smResp' = IF ok
                     THEN Some(SimilarResponse(similar, doc, Limit, Threshold,
                                               smReq[1].crossCollection))
                     ELSE Some(ErrorResponse("RUNTIME", 500))
    /\ smPc' = "done"
    /\ UNCHANGED << smDocs, smIndex, smCtx, smReq, smHits, smSearches >>
    /\ UNCHANGED oldVars
    /\ MoreFrame("similar")

\* ---- the store and the index requests are made on
Row(docid, collection, hash, active) ==
    [docid |-> docid, collection |-> collection, mirrorHash |-> hash,
     active |-> active]

Vec(hash, seq, distance) ==
    [mirrorHash |-> hash, seq |-> seq, distance |-> distance]

\* The query document q, a document a that may be in another collection,
\* inactive, or a copy of q, and a document b that may be a copy of a.
SimilarStores ==
    {[d \in SimilarDocids |->
         CASE d = "q" -> Row("q", "c1", hq, TRUE)
           [] d = "a" -> Row("a", ca, Some(ha), aa)
           [] d = "b" -> Row("b", "c1", Some(hb), TRUE)] :
         hq \in {Undefined, Some("hq")}, ca \in {"c1", "c2"},
         ha \in {"ha", "hq"}, aa \in BOOLEAN, hb \in {"ha", "hb"}}

\* The vectors of the index, nearest first: q's own chunk at distance 0,
\* two chunks of ha and one of hb.
SimilarIndexes ==
    {<< Vec("hq", 0, 0), Vec("ha", 0, 2), Vec("hb", 0, 2), Vec("ha", 1, 3) >>,
     << Vec("hq", 0, 0), Vec("ha", 0, 2), Vec("ha", 1, 3), Vec("hb", 0, 12) >>,
     << Vec("hq", 0, 0), Vec("hb", 0, 2), Vec("ha", 0, 7), Vec("ha", 1, 8) >>,
     << Vec("hq", 0, 0), Vec("ha", 0, 7), Vec("ha", 1, 8), Vec("hb", 0, 12) >>}

SimilarInit ==
    /\ smDocs \in SimilarStores
    /\ smIndex \in SimilarIndexes
    /\ smCtx \in [searchAvailable : BOOLEAN, embeddings : {"none", "ok", "bad"}]
    /\ smReq = Undefined
    /\ smPc = "idle"
    /\ smHits = << >>
    /\ smSearches = 0
    /\ smResp = Undefined
    /\ OldIdle
    /\ MoreIdleExcept("similar")

SimilarNext ==
    \/ \E params \in SimilarParams : SimilarRequest(params)
    \/ \E ok \in BOOLEAN : GetDocumentSettles(ok)
    \/ \E ok \in BOOLEAN : SearchNearestSettles(ok)
    \/ \E ok \in BOOLEAN : ListDocumentsSettles(ok)

SimilarSpec == SimilarInit /\ [][SimilarNext]_vars

\* ---- the claims on handleDocSimilar
\* The handler has answered 200.
SimilarOk == smResp # Undefined /\ smResp[1].status = 200

\* C26: in a successful response no entry is the query document, the
\* docids are pairwise distinct, every score is in [0,1] and at least the
\* threshold, there are at most limit entries, they are in descending order
\* of score, and unless crossCollection is true every entry is of the
\* query document's collection.
C26_SimilarResponseSafe ==
    SimilarOk =>
        LET similar == smResp[1].similar
            doc == smDocs[smReq[1].docId]
            at == 1..Len(similar)
        IN  /\ \A i \in at : similar[i].docid # doc.docid
            /\ \A i, j \in at : i # j => similar[i].docid # similar[j].docid
            /\ \A i \in at : /\ similar[i].score >= 0
                             /\ similar[i].score <= Tenths
                             /\ similar[i].score >= Threshold
            /\ Len(similar) <= Limit
            /\ \A i, j \in at : i < j => similar[i].score >= similar[j].score
            /\ ~smReq[1].crossCollection
                   => \A i \in at : similar[i].collection = doc.collection

\* A response with two entries of different scores, found behind the query
\* document's own vector.
C26_Witness ==
    /\ SimilarOk
    /\ smHits # << >>
    /\ smHits[1].mirrorHash = "hq"
    /\ smDocs["q"].mirrorHash = Some("hq")
    /\ ~smReq[1].crossCollection
    /\ Len(smResp[1].similar) = 2
    /\ smResp[1].similar[1].score > smResp[1].similar[2].score

\* The similarity of a document to the query: the score of the nearest
\* vector of its content.
Similarity(row) ==
    LET at == {i \in 1..Len(smIndex) :
                   Some(smIndex[i].mirrorHash) = row.mirrorHash}
    IN  IF at = {} THEN 0 - 1
        ELSE Score(smIndex[CHOOSE i \in at : \A j \in at : i <= j].distance)

\* The other active documents in scope whose similarity is at least the
\* threshold.
Eligible ==
    LET doc == smDocs[smReq[1].docId]
    IN  {d \in SimilarDocids :
             /\ d # doc.docid
             /\ smDocs[d].active
             /\ smDocs[d].mirrorHash # Undefined
             /\ smReq[1].crossCollection
                    \/ smDocs[d].collection = doc.collection
             /\ Similarity(smDocs[d]) >= Threshold}

\* C27: for a document whose nearest neighbour in the index is itself,
\* whenever at least limit other active in-scope documents have a
\* similarity of at least the threshold, exactly limit documents are
\* returned, and they are the nearest of those documents.
C27_NextNearest ==
    (/\ SimilarOk
     /\ smHits # << >>
     /\ Some(smHits[1].mirrorHash) = smDocs[smReq[1].docId].mirrorHash
     /\ Cardinality(Eligible) >= Limit)
        => LET similar == smResp[1].similar
               returned == {similar[i].docid : i \in 1..Len(similar)}
           IN  /\ Len(similar) = Limit
               /\ returned \subseteq Eligible
               /\ \A i \in 1..Len(similar) : \A d \in Eligible \ returned :
                      similar[i].score >= Similarity(smDocs[d])

\* C29: get_similar fails with NOT_FOUND when no document has the docid
\* and with VEC_UNAVAILABLE when the document exists and the vector index
\* is not search-available, and makes no similarity search in either case.
C29_NotFoundOrUnavailable ==
    (smResp # Undefined /\ smPc = "done" /\ smHits = << >>
         /\ smResp[1].code \notin {None, "RUNTIME"})
        => /\ smSearches = 0
           /\ smResp[1].code =
                  IF smReq[1].docId \notin DOMAIN smDocs THEN "NOT_FOUND"
                  ELSE "VEC_UNAVAILABLE"

\* The part of C29 that holds, with the code the handler does answer.
C29_NotFoundOrUnavailableCode ==
    (smResp # Undefined /\ smReq[1].docId \notin DOMAIN smDocs
         /\ smResp[1].code # "RUNTIME"
        => smResp[1].code = "NOT_FOUND" /\ smSearches = 0)
    /\ (smResp # Undefined /\ smReq[1].docId \in DOMAIN smDocs
            /\ ~smCtx.searchAvailable /\ smResp[1].code # "RUNTIME"
           => smResp[1].code = "UNAVAILABLE" /\ smSearches = 0)

\* -------------------------------------------------------- handleDocLinks
\* GET /api/doc/:id/links.  The store is a port: the document with docid
\* "q" exists, and getLinksForDoc returns its link rows in any order.
MaxLinks == 3         \* link rows of the document

\* start positions (startLine, startCol) of the links
LinkPositions == {<< 1, 1 >>, << 1, 2 >>, << 2, 1 >>}

LinkTypes == {"wiki", "markdown"}

\* A link row; id tells the rows of one document apart.
LinkRow(id, linkType, position) ==
    [id |-> id, linkType |-> linkType, startLine |-> position[1],
     startCol |-> position[2]]

\* The arrays of link rows the store may return.
LinkArrays ==
    UNION {{[i \in 1..n |-> LinkRow(i, types[i], positions[i])] :
                types \in [1..n -> LinkTypes],
                positions \in [1..n -> LinkPositions]} : n \in 0..MaxLinks}

\* url.searchParams.get("type"): null, or the string given
TypeParams ==
    {Undefined, Some(""), Some("wiki"), Some("markdown"), Some("other")}

\* if (typeParam): the parameter is given and is not the empty string
TypeGiven(typeParam) == typeParam # Undefined /\ typeParam[1] # ""

\* links.filter((l) => l.linkType === validatedType)
RECURSIVE FilterLinks(_, _)
FilterLinks(links, validatedType) ==
    IF links = << >> THEN << >>
    ELSE (IF Head(links).linkType = validatedType
          THEN << Head(links) >> ELSE << >>)
         \o FilterLinks(Tail(links), validatedType)

\* Variant of LinkOrder: the links are compared by startLine only, and
\* from the last line to the first.
LinkOrderByLineDescending(a, b) == b.startLine - a.startLine

\* The comparator of links.sort: negative when a comes first
LinkOrder(a, b) ==
    IF a.startLine # b.startLine THEN a.startLine - b.startLine
    ELSE a.startCol - b.startCol

\* links.sort(comparator): stable
RECURSIVE SortLinks(_)
SortLinks(links) ==
    IF links = << >> THEN << >>
    ELSE LET sorted == SortLinks(SubSeq(links, 1, Len(links) - 1))
             e == links[Len(links)]
             k == Cardinality({i \in 1..Len(sorted) :
                                   LinkOrder(sorted[i], e) <= 0})
         IN  SubSeq(sorted, 1, k) \o << e >>
             \o SubSeq(sorted, k + 1, Len(sorted))

LinksError(code, status) ==
    [status |-> status, code |-> code, links |-> << >>, docid |-> None,
     totalLinks |-> 0, typeFilter |-> Undefined]

LinkResponse(links, docid, validatedType) ==
    [status |-> 200, code |-> None, links |-> links, docid |-> docid,
     totalLinks |-> Len(links), typeFilter |-> validatedType]

\* handleDocLinks(store, docId, url), up to its first await
LinksRequest(docId, typeParam) ==
    /\ lnPc = "idle"
    /\ lnReq' = Some([docId |-> docId, type |-> typeParam])
    /\ lnPc' = "getDocumentByDocid"
    /\ UNCHANGED << lnLinks, lnResp >>
    /\ UNCHANGED oldVars
    /\ MoreFrame("links")

\* getDocumentByDocid settles; the handler runs to the await of
\* getLinksForDoc, or returns.
LinksDocumentSettles(ok) ==
    /\ lnPc = "getDocumentByDocid"
    /\ IF ~ok
       THEN lnResp' = Some(LinksError("RUNTIME", 500)) /\ lnPc' = "done"
       ELSE IF lnReq[1].docId # "q"
       THEN lnResp' = Some(LinksError("NOT_FOUND", 404)) /\ lnPc' = "done"
       ELSE lnPc' = "getLinksForDoc" /\ UNCHANGED lnResp
    /\ UNCHANGED << lnLinks, lnReq >>
    /\ UNCHANGED oldVars
    /\ MoreFrame("links")

\* getLinksForDoc settles; the handler validates the type, filters, sorts
\* and answers.
GetLinksSettles(ok) ==
    /\ lnPc = "getLinksForDoc"
    /\ LET typeParam == lnReq[1].type
           filtered == IF TypeGiven(typeParam)
                       THEN FilterLinks(lnLinks, typeParam[1])
                       ELSE lnLinks
       IN  lnResp' =
               IF ~ok THEN Some(LinksError("RUNTIME", 500))
               ELSE IF TypeGiven(typeParam) /\ typeParam[1] \notin LinkTypes
               THEN Some(LinksError("VALIDATION", 400))
               ELSE Some(LinkResponse(SortLinks(filtered), lnReq[1].docId,
                                      IF TypeGiven(typeParam) THEN typeParam
                                      ELSE Undefined))
    /\ lnPc' = "done"
    /\ UNCHANGED << lnLinks, lnReq >>
    /\ UNCHANGED oldVars
    /\ MoreFrame("links")

LinksInit ==
    /\ lnLinks \in LinkArrays
    /\ lnReq = Undefined
    /\ lnPc = "idle"
    /\ lnResp = Undefined
    /\ OldIdle
    /\ MoreIdleExcept("links")

LinksNext ==
    \/ \E docId \in {"q", "missing"}, typeParam \in TypeParams :
           LinksRequest(docId, typeParam)
    \/ \E ok \in BOOLEAN : LinksDocumentSettles(ok)
    \/ \E ok \in BOOLEAN : GetLinksSettles(ok)

LinksSpec == LinksInit /\ [][LinksNext]_vars

\* The handler found the document and read its links.
LinksAnswered ==
    lnResp # Undefined /\ lnResp[1].code \notin {"NOT_FOUND", "RUNTIME"}

\* The links of the document that have the type asked for; all of them
\* when the type parameter is one of unfiltered.
LinksAsked(unfiltered) ==
    {lnLinks[i] : i \in {j \in 1..Len(lnLinks) :
                             lnReq[1].type \in unfiltered
                                 \/ Some(lnLinks[j].linkType) = lnReq[1].type}}

\* The answer is the document's links in ascending order of (startLine,
\* startCol); with a type filter every returned link has that type and
\* totalLinks counts the filtered links only; a type parameter that is
\* neither wiki nor markdown nor one of unfiltered is answered with
\* VALIDATION, HTTP 400, and no links.
LinksAnswer(unfiltered) ==
    LinksAnswered =>
        LET r == lnResp[1]
            type == lnReq[1].type
            at == 1..Len(r.links)
        IN  IF type \notin unfiltered \cup {Some("wiki"), Some("markdown")}
            THEN r.status = 400 /\ r.code = "VALIDATION" /\ r.links = << >>
            ELSE /\ r.status = 200
                 /\ {r.links[i] : i \in at} = LinksAsked(unfiltered)
                 /\ \A i, j \in at : i # j => r.links[i] # r.links[j]
                 /\ \A i, j \in at : i < j =>
                        \/ r.links[i].startLine < r.links[j].startLine
                        \/ /\ r.links[i].startLine = r.links[j].startLine
                           /\ r.links[i].startCol <= r.links[j].startCol
                 /\ type \in {Some("wiki"), Some("markdown")} =>
                        /\ \A i \in at : Some(r.links[i].linkType) = type
                        /\ r.typeFilter = type
                 /\ r.totalLinks = Cardinality(LinksAsked(unfiltered))

\* C28 as stated: handleDocLinks returns the document's outgoing links in
\* ascending order of (startLine, startCol); with a type filter every
\* returned link has that type and totalLinks counts the filtered links
\* only; every type value other than wiki and markdown, the empty one
\* included, is answered with VALIDATION, HTTP 400, and no links.
C28_Original == LinksAnswer({Undefined})

\* C28, amended: as above for the non-empty type values; an empty type
\* value is no filter, and all the links are returned.
C28_LinksSortedAndFiltered == LinksAnswer({Undefined, Some("")})

\* A filtered answer: the store returned three links out of order, one of
\* them of the other type.
C28_Witness ==
    /\ LinksAnswered
    /\ lnReq[1].type = Some("wiki")
    /\ Len(lnLinks) = 3
    /\ lnLinks[1].startLine = 2
    /\ lnLinks[2].linkType = "markdown"
    /\ lnLinks[3] = LinkRow(3, "wiki", << 1, 2 >>)
    /\ lnResp[1].totalLinks = 2
    /\ lnResp[1].links[1] = lnLinks[3]

\* ------------------------------------------------------- BacklinksPanel
\* One mounted BacklinksPanel.  Its docId prop changes, the effect calls
\* fetchBacklinks, the Retry button calls it again, and the responses of
\* the calls in flight arrive in any order.
MaxFetches == 3       \* fetchBacklinks calls made on the panel

NoPanelError == "null"

\* BacklinksResponse for a document: its backlinks and meta.totalBacklinks
BacklinksResponse(d) == [backlinks |-> Some(d), totalBacklinks |-> Some(d)]

\* CacheEntry; `by` is the call that wrote it (0: before the panel mounted),
\* and expired stands for Date.now() - entry.timestamp > CACHE_TTL.
CacheEntry(d, by) == [data |-> BacklinksResponse(d), by |-> by,
                      expired |-> FALSE]

\* getCached(key): the data of an entry that is there and not expired
getCached(d) ==
    IF cache[d] = Undefined THEN Undefined
    ELSE IF cache[d][1].expired THEN Undefined
    ELSE Some(cache[d][1].data)

\* What getCached leaves in the Map: an expired entry is deleted.
AfterGetCached(d) ==
    IF cache[d] # Undefined /\ cache[d][1].expired
    THEN [cache EXCEPT ![d] = Undefined]
    ELSE cache

\* Variant of IsStale: no response is taken for stale.
IsStaleNever(currentRequestId) == FALSE

\* if (currentRequestId !== requestIdRef.current)
IsStale(currentRequestId) == currentRequestId # requestIdRef

Fetch(d, at, outcome) == [docId |-> d, pc |-> at, outcome |-> outcome]

\* fetchBacklinks(), up to its return on a cache hit or its await of
\* apiFetch
fetchBacklinks ==
    LET currentRequestId == requestIdRef + 1
        cached == getCached(panelDocId)
    IN  /\ currentRequestId <= MaxFetches
        /\ requestIdRef' = currentRequestId
        /\ actor' = currentRequestId
        /\ cache' = AfterGetCached(panelDocId)
        /\ IF cached # Undefined
           THEN /\ backlinks' = cached[1].backlinks
                /\ totalCount' = cached[1].totalBacklinks
                /\ loading' = FALSE
                /\ error' = error
                /\ fetches' = Append(fetches,
                                     Fetch(panelDocId, "done", "cached"))
           ELSE /\ loading' = TRUE
                /\ error' = NoPanelError
                /\ UNCHANGED << backlinks, totalCount >>
                /\ fetches' = Append(fetches,
                                     Fetch(panelDocId, "await", "pending"))

\* useEffect(() => { void fetchBacklinks() }, [fetchBacklinks])
EffectRuns ==
    /\ effectPending
    /\ effectPending' = FALSE
    /\ fetchBacklinks
    /\ UNCHANGED panelDocId
    /\ UNCHANGED oldVars
    /\ MoreFrame("backlinks")

\* The parent renders the panel with another docId; the effect is due.
DocIdChanges(d) ==
    /\ d # panelDocId
    /\ requestIdRef < MaxFetches
    /\ panelDocId' = d
    /\ effectPending' = TRUE
    /\ actor' = 0
    /\ UNCHANGED << backlinks, totalCount, loading, error, requestIdRef,
                    cache, fetches >>
    /\ UNCHANGED oldVars
    /\ MoreFrame("backlinks")

\* The Retry button, rendered when !loading && error
Retry ==
    /\ ~loading
    /\ error # NoPanelError
    /\ fetchBacklinks
    /\ UNCHANGED << panelDocId, effectPending >>
    /\ UNCHANGED oldVars
    /\ MoreFrame("backlinks")

\* await apiFetch(url) is over for call i, with data or with an error; the
\* rest of fetchBacklinks.
ResponseArrives(i, ok) ==
    /\ fetches[i].pc = "await"
    /\ actor' = i
    /\ UNCHANGED << panelDocId, effectPending, requestIdRef >>
    /\ IF IsStale(i)
       THEN /\ fetches' = [fetches EXCEPT
                             ![i] = Fetch(fetches[i].docId, "done", "stale")]
            /\ UNCHANGED << backlinks, totalCount, loading, error, cache >>
       ELSE IF ~ok
       THEN /\ fetches' = [fetches EXCEPT
                             ![i] = Fetch(fetches[i].docId, "done", "error")]
            /\ error' = "Failed to load backlinks"
            /\ loading' = FALSE
            /\ UNCHANGED << backlinks, totalCount, cache >>
       ELSE LET data == BacklinksResponse(fetches[i].docId)
            IN  /\ fetches' = [fetches EXCEPT
                                 ![i] = Fetch(fetches[i].docId, "done", "ok")]
                /\ cache' = [cache EXCEPT ![fetches[i].docId]
                                            = Some(CacheEntry(fetches[i].docId, i))]
                /\ backlinks' = data.backlinks
                /\ totalCount' = data.totalBacklinks
                /\ loading' = FALSE
                /\ error' = error
    /\ UNCHANGED oldVars
    /\ MoreFrame("backlinks")

\* CACHE_TTL milliseconds have passed since the entry was written.
CacheAges(d) ==
    /\ cache[d] # Undefined
    /\ ~cache[d][1].expired
    /\ cache' = [cache EXCEPT ![d] = Some([cache[d][1] EXCEPT
                                             !.expired = TRUE])]
    /\ actor' = 0
    /\ UNCHANGED << panelDocId, effectPending, backlinks, totalCount,
                    loading, error, requestIdRef, fetches >>
    /\ UNCHANGED oldVars
    /\ MoreFrame("backlinks")

\* The panel has rendered for the first time; the cache holds what panels
\* mounted before it have left there.
PanelInit ==
    /\ panelDocId \in PanelDocs
    /\ effectPending = TRUE
    /\ backlinks = Undefined
    /\ totalCount = Undefined
    /\ loading = TRUE
    /\ error = NoPanelError
    /\ requestIdRef = 0
    /\ \E held \in SUBSET PanelDocs :
         cache = [d \in PanelDocs |-> IF d \in held
                                      THEN Some(CacheEntry(d, 0))
                                      ELSE Undefined]
    /\ fetches = << >>
    /\ actor = 0
    /\ OldIdle
    /\ MoreIdleExcept("backlinks")

PanelNext ==
    \/ EffectRuns
    \/ \E d \in PanelDocs : DocIdChanges(d)
    \/ Retry
    \/ \E i \in 1..Len(fetches) : \E ok \in BOOLEAN : ResponseArrives(i, ok)
    \/ \E d \in PanelDocs : CacheAges(d)

PanelSpec == PanelInit /\ [][PanelNext]_vars

\* ---- properties of BacklinksPanel
Display == << backlinks, totalCount, error, loading >>

\* The step writes an entry to the cache.
CacheWritten ==
    \E d \in PanelDocs :
        /\ cache'[d] # Undefined
        /\ cache'[d] # cache[d]
        /\ ~cache'[d][1].expired

\* The step is the arrival of the response of call i.
ResponseOf(i) == fetches[i].pc = "await" /\ fetches'[i].pc = "done"

\* C35: under any interleaving of overlapping fetchBacklinks calls (docId
\* changes and retries included), only the response of the most recently
\* started call can update backlinks, totalCount, error and loading or be
\* written to the cache; the response of an earlier call is discarded when
\* it arrives, whatever the order of arrival.
C35_OnlyLatestResponseApplies ==
    /\ [][\A i \in 1..Len(fetches) :
            (ResponseOf(i) /\ i # requestIdRef)
                => (/\ UNCHANGED Display
                    /\ ~CacheWritten
                    /\ cache' = cache
                    /\ fetches'[i].outcome = "stale")]_vars
    /\ [][(Display' # Display \/ CacheWritten)
            => actor' = requestIdRef']_vars
    /\ [](\A d \in PanelDocs :
            cache[d] # Undefined
              => (cache[d][1].by = 0
                  \/ fetches[cache[d][1].by].outcome = "ok"))

\* Three overlapping calls: the responses of the first two arrived after
\* the third had started and were discarded, the second before the first
\* or after it; the panel holds what the third brought.
C35_Witness ==
    /\ Len(fetches) = 3
    /\ fetches[1].outcome = "stale"
    /\ fetches[2].outcome = "stale"
    /\ fetches[3].outcome = "ok"
    /\ fetches[1].docId # fetches[3].docId
    /\ backlinks = Some(fetches[3].docId)
    /\ cache[fetches[1].docId] = Undefined
    /\ ~loading

\* The most recently started call has completed with the backlinks.
LatestSucceeded(outcomes) ==
    /\ requestIdRef > 0
    /\ fetches[requestIdRef].pc = "done"
    /\ fetches[requestIdRef].outcome \in outcomes

\* C36: whenever loading is false and the most recently started
\* fetchBacklinks call completed successfully, from the network or from
\* the cache, error is null.
C36_SuccessClearsError ==
    (~loading /\ LatestSucceeded({"ok", "cached"})) => error = NoPanelError

\* The same for a call served from the network.
C36_NetworkSuccessClearsError ==
    (~loading /\ LatestSucceeded({"ok"})) => error = NoPanelError

\* A call served from the cache after the call before it had failed.
C36_CachedAfterFailure ==
    /\ ~loading
    /\ LatestSucceeded({"cached"})
    /\ backlinks = Some(panelDocId)
    /\ error # NoPanelError

\* --------------------------------------------------- AddCollectionDialog
\* One AddCollectionDialog: the user types a path, clicks the buttons that
\* are rendered and enabled, presses Ctrl/Cmd+Enter inside the dialog, and
\* the answers to the requests arrive.
MaxPosts == 3         \* POST /api/collections requests sent by the dialog

BSL == "BACKSLASH"

\* The paths typed: none, a blank, relative ones, absolute ones (POSIX and
\* drive letter), a drive letter in lower case, and a blank before a slash.
DialogPaths ==
    {<< >>, << SP >>, << "r" >>, << "/" >>, << "/", "r" >>,
     << "C", ":", BSL, "r" >>, << "c", ":", BSL, "r" >>, << SP, "/" >>}

UpperCase == {"C"}

\* path.startsWith("/") || /^[A-Z]:\\/.test(path)
isAbsolutePath(path) ==
    \/ Len(path) >= 1 /\ path[1] = "/"
    \/ /\ Len(path) >= 3
       /\ path[1] \in UpperCase
       /\ path[2] = ":"
       /\ path[3] = BSL

\* path && !isAbsolutePath(path) ? "Path must be absolute" : null
pathError(path) == Len(path) > 0 /\ ~isAbsolutePath(path)

\* path.trim() && !pathError
isValid(path) == Len(trim(path)) > 0 /\ ~pathError(path)

\* handleSubmit, up to its await of apiFetch; `via` is what called it
handleSubmit(via) ==
    IF ~isValid(dlgPath)
    THEN UNCHANGED << dlgState, dlgError, dlgInFlight, dlgPosts, dlgVia >>
    ELSE /\ dlgPosts < MaxPosts
         /\ dlgState' = "submitting"
         /\ dlgError' = "null"
         /\ dlgInFlight' = dlgInFlight + 1
         /\ dlgPosts' = dlgPosts + 1
         /\ dlgVia' = Some([via |-> via, state |-> dlgState])

\* The form is rendered and its inputs are enabled: setPath(e.target.value)
SetPath(path) ==
    /\ dlgOpen
    /\ dlgState = "form"
    /\ path # dlgPath
    /\ dlgPath' = path
    /\ UNCHANGED << dlgOpen, dlgState, dlgError, dlgInFlight, dlgPosts,
                    dlgVia >>
    /\ UNCHANGED oldVars
    /\ MoreFrame("dialog")

\* The "Add collection" button: rendered in the states form and submitting,
\* disabled={!isValid || state === "submitting"}
ClickAdd ==
    /\ dlgOpen
    /\ dlgState \in {"form", "submitting"}
    /\ ~(~isValid(dlgPath) \/ dlgState = "submitting")
    /\ handleSubmit("click")
    /\ UNCHANGED << dlgOpen, dlgPath >>
    /\ UNCHANGED oldVars
    /\ MoreFrame("dialog")

\* Variant of KeySubmits: the key is taken only while the form is shown.
KeySubmitsInForm == isValid(dlgPath) /\ dlgState = "form"

\* (e.metaKey || e.ctrlKey) && e.key === "Enter" && isValid
KeySubmits == isValid(dlgPath)

\* handleKeyDown on DialogContent, for Ctrl/Cmd+Enter
KeyDown ==
    /\ dlgOpen
    /\ KeySubmits
    /\ handleSubmit("key")
    /\ UNCHANGED << dlgOpen, dlgPath >>
    /\ UNCHANGED oldVars
    /\ MoreFrame("dialog")

\* await apiFetch is over for one of the requests; the rest of handleSubmit
CreateAnswered(ok) ==
    /\ dlgInFlight > 0
    /\ dlgInFlight' = dlgInFlight - 1
    /\ IF ok
       THEN /\ dlgState' = "success"
            /\ dlgError' = dlgError
       ELSE /\ dlgState' = "error"
            /\ dlgError' = "failed"
    /\ UNCHANGED << dlgOpen, dlgPath, dlgPosts, dlgVia >>
    /\ UNCHANGED oldVars
    /\ MoreFrame("dialog")

\* The "Try again" button of the error state: setState("form")
TryAgain ==
    /\ dlgOpen
    /\ dlgState = "error"
    /\ dlgError # "null"
    /\ dlgState' = "form"
    /\ UNCHANGED << dlgOpen, dlgPath, dlgError, dlgInFlight, dlgPosts,
                    dlgVia >>
    /\ UNCHANGED oldVars
    /\ MoreFrame("dialog")

\* Cancel, Done, or the end of indexing: onOpenChange(false)
Close ==
    /\ dlgOpen
    /\ dlgOpen' = FALSE
    /\ UNCHANGED << dlgPath, dlgState, dlgError, dlgInFlight, dlgPosts,
                    dlgVia >>
    /\ UNCHANGED oldVars
    /\ MoreFrame("dialog")

\* The timer of the effect on `open` fires 200 ms after the dialog closed.
ResetForm ==
    /\ ~dlgOpen
    /\ dlgPath' = << >>
    /\ dlgState' = "form"
    /\ dlgError' = "null"
    /\ UNCHANGED << dlgOpen, dlgInFlight, dlgPosts, dlgVia >>
    /\ UNCHANGED oldVars
    /\ MoreFrame("dialog")

\* The parent opens the dialog (again).
Open ==
    /\ ~dlgOpen
    /\ dlgOpen' = TRUE
    /\ UNCHANGED << dlgPath, dlgState, dlgError, dlgInFlight, dlgPosts,
                    dlgVia >>
    /\ UNCHANGED oldVars
    /\ MoreFrame("dialog")

DialogInit ==
    /\ dlgOpen \in BOOLEAN
    /\ dlgPath = << >>
    /\ dlgState = "form"
    /\ dlgError = "null"
    /\ dlgInFlight = 0
    /\ dlgPosts = 0
    /\ dlgVia = Undefined
    /\ OldIdle
    /\ MoreIdleExcept("dialog")

DialogNext ==
    \/ \E path \in DialogPaths : SetPath(path)
    \/ ClickAdd
    \/ KeyDown
    \/ \E ok \in BOOLEAN : CreateAnswered(ok)
    \/ TryAgain
    \/ Close
    \/ ResetForm
    \/ Open

DialogSpec == DialogInit /\ [][DialogNext]_vars

\* ---- properties of AddCollectionDialog
\* The step sends a create request.
Posted == dlgPosts' = dlgPosts + 1

\* A request sent in one of the ways `vias` is sent from the form state,
\* with a non-empty absolute path.
PostedFromForm(vias) ==
    (Posted /\ dlgVia'[1].via \in vias)
        => (/\ dlgState = "form"
            /\ Len(dlgPath) > 0
            /\ isAbsolutePath(dlgPath))

\* C37: the dialog sends POST /api/collections only when its state is
\* 'form' and the path is non-empty and absolute; through any sequence of
\* clicks and Ctrl/Cmd+Enter presses no request is sent while the state is
\* 'submitting' or after it became 'success' or 'error', so at most one
\* create request is in flight and none follows a success.
C37_SubmitsOnlyFromForm ==
    /\ [][PostedFromForm({"click", "key"})]_vars
    /\ [](dlgInFlight <= 1)
    /\ [](dlgPosts > 0 => dlgVia[1].state = "form")

\* The same for the requests sent by a click on the button.
C37_ClickSubmitsOnlyFromForm == [][PostedFromForm({"click"})]_vars

\* Every request, however it was sent, had a non-empty absolute path.
C37_PostsHaveValidPath ==
    [][Posted => (Len(dlgPath) > 0 /\ isAbsolutePath(dlgPath))]_vars

\* Ctrl/Cmd+Enter sent a second request while the first was in flight.
C37_KeyWhileSubmitting ==
    /\ dlgVia = Some([via |-> "key", state |-> "submitting"])
    /\ dlgInFlight = 2

\* Ctrl/Cmd+Enter sent the request again after the collection was created.
C37_KeyAfterSuccess ==
    /\ dlgVia = Some([via |-> "key", state |-> "success"])
    /\ dlgPosts >= 2

\* ----------------------------------------------------------- fuzzyScore
\* fuzzyScore(text, query) on texts and queries over a word character in
\* both cases and a non-word character.  A score is the fraction num / den,
\* so that 900 + (query.length / text.length) * 50 is kept exactly.
MaxText == 3          \* characters of the texts enumerated
MaxQuery == 2         \* characters of the queries enumerated
LongRun == 9          \* shortest run of equal characters in the long texts
MaxLongRun == 12      \* longest run of equal characters in the long texts

FuzzyChars == {"a", "A", "-"}

\* c.toLowerCase()
LowerChar(c) == IF c = "A" THEN "a" ELSE c

LowerText(s) == [i \in 1..Len(s) |-> LowerChar(s[i])]

\* /\W/.test(c): c is no letter, digit or underscore
NonWord(c) == c \notin {"a", "A"}

\* s.startsWith(sub) from the 0-based index at
OccursAt(s, sub, at) ==
    /\ at + Len(sub) <= Len(s)
    /\ \A i \in 1..Len(sub) : s[at + i] = sub[i]

\* s.indexOf(sub, from), 0-based; -1 when there is none
indexOf(s, sub, from) ==
    LET found == {at \in from..Len(s) : OccursAt(s, sub, at)}
    IN  IF found = {} THEN -1
        ELSE CHOOSE at \in found : \A other \in found : at <= other

Whole(n) == [num |-> n, den |-> 1]

\* base + (query.length / text.length) * 50
Scaled(base, text, query) ==
    [num |-> base * Len(text) + 50 * Len(query), den |-> Len(text)]

\* foundIdx === 0 || /\W/.test(text[foundIdx - 1])
AtWordBoundary(text, foundIdx) == foundIdx = 0 \/ NonWord(text[foundIdx])

\* The loop of the scattered match from the k-th character of the query on
RECURSIVE Scattered(_, _, _, _, _, _)
Scattered(text, lowerQuery, k, score, textIdx, consecutiveBonus) ==
    IF k > Len(lowerQuery) THEN score
    ELSE LET foundIdx == indexOf(LowerText(text), << lowerQuery[k] >>,
                                 textIdx)
             bonus == IF foundIdx = textIdx THEN consecutiveBonus + 10
                      ELSE 0
             boundary == IF AtWordBoundary(text, foundIdx) THEN 20 ELSE 0
         IN  IF foundIdx = -1 THEN -1
             ELSE Scattered(text, lowerQuery, k + 1,
                            score + boundary + 10 + bonus, foundIdx + 1,
                            bonus)

\* fuzzyScore(text, query)
fuzzyScore(text, query) ==
    LET lowerText == LowerText(text)
        lowerQuery == LowerText(query)
        substringIdx == indexOf(lowerText, lowerQuery, 0)
    IN  IF lowerText = lowerQuery THEN Whole(1000)
        ELSE IF OccursAt(lowerText, lowerQuery, 0)
        THEN Scaled(900, text, query)
        ELSE IF substringIdx # -1
        THEN IF AtWordBoundary(text, substringIdx)
             THEN Scaled(800, text, query)
             ELSE Scaled(700, text, query)
        ELSE Whole(Scattered(text, lowerQuery, 1, 0, 0, 0))

\* ---- inputs
StringsUpTo(n) == UNION {[1..m -> FuzzyChars] : m \in 0..n}

Repeat(c, n) == [i \in 1..n |-> c]

\* A long query of one repeated character, and a text that holds all of it
\* but the last character in one run: a scattered match.
LongPairs ==
    {[text |-> Repeat("-", n) \o << "a", "-" >>,
      query |-> Repeat("-", n + 1)] : n \in LongRun..MaxLongRun}

FuzzyInputs ==
    {[text |-> t, query |-> q] : t \in StringsUpTo(MaxText),
                                 q \in StringsUpTo(MaxQuery)}
    \cup LongPairs

FuzzyInit ==
    /\ \E input \in FuzzyInputs :
         /\ fzText = Some(input.text)
         /\ fzQuery = Some(input.query)
    /\ fzScore = Undefined
    /\ OldIdle
    /\ MoreIdleExcept("fuzzy")

\* fuzzyScore(text, query) is called
CallFuzzyScore ==
    /\ fzScore = Undefined
    /\ fzScore' = Some(fuzzyScore(fzText[1], fzQuery[1]))
    /\ UNCHANGED << fzText, fzQuery >>
    /\ UNCHANGED oldVars
    /\ MoreFrame("fuzzy")

FuzzyNext == CallFuzzyScore

FuzzySpec == FuzzyInit /\ [][FuzzyNext]_vars

\* ---- properties of fuzzyScore
\* The query is a subsequence of the text, case aside.
RECURSIVE IsSubsequence(_, _, _, _)
IsSubsequence(s, sub, k, from) ==
    IF k > Len(sub) THEN TRUE
    ELSE LET at == indexOf(s, << sub[k] >>, from)
         IN  at # -1 /\ IsSubsequence(s, sub, k + 1, at + 1)

\* The kind of match of the query in the text, as a rank: 5 exact, 4 prefix,
\* 3 substring that begins at a word boundary, 2 substring that begins
\* inside a word (the first occurrence decides), 1 scattered characters,
\* 0 no match.
MatchRank(text, query) ==
    LET s == LowerText(text)
        q == LowerText(query)
        first == indexOf(s, q, 0)
    IN  IF s = q THEN 5
        ELSE IF first = 0 THEN 4
        ELSE IF first > 0
        THEN (IF NonWord(text[first]) THEN 3 ELSE 2)
        ELSE IF IsSubsequence(s, q, 1, 0) THEN 1
        ELSE 0

Less(a, b) == a.num * b.den < b.num * a.den

\* The score just returned is above the score of every input of a lower
\* kind among `inputs`, is 1000 for an exact match and -1 for no match.
OrderedAmong(inputs) ==
    fzScore # Undefined
    => LET rank == MatchRank(fzText[1], fzQuery[1])
       IN  /\ rank = 5 => fzScore[1] = Whole(1000)
           /\ rank = 0 <=> fzScore[1] = Whole(-1)
           /\ \A other \in inputs :
                MatchRank(other.text, other.query) < rank
                    => Less(fuzzyScore(other.text, other.query), fzScore[1])

\* C38: fuzzyScore orders the kinds of match strictly, for all texts and
\* queries: an exact match (1000) scores above any prefix match, that above
\* any word-boundary substring match, that above any mid-word substring
\* match, that above any scattered-character match; a non-match scores -1.
C38_KindsStrictlyOrdered == OrderedAmong(FuzzyInputs)

\* The same among the texts and queries of at most MaxText and MaxQuery
\* characters.
C38_ShortKindsStrictlyOrdered ==
    (fzScore # Undefined /\ Len(fzQuery[1]) <= MaxQuery)
        => OrderedAmong(FuzzyInputs \ LongPairs)

\* A scattered match of a long query that scored above 1000.
C38_ScatteredAboveExact ==
    /\ fzScore # Undefined
    /\ MatchRank(fzText[1], fzQuery[1]) = 1
    /\ Less(Whole(1000), fzScore[1])

====
